---- MODULE Spec2Model ----
(***************************************************************************)
(* Verification model of the ctap-types codec layer: the CTAP2 operation   *)
(* registry (operation.rs), the CTAP2 request decoder and the CTAP2        *)
(* response encoder (ctap2.rs).                                            *)
(*                                                                         *)
(* Values of Rust enums are tagged tuples: <<"Tag">> or <<"Tag", payload>>.*)
(* A Result is Ok(v) = <<"Ok", v>> or Err(e) = <<"Err", e>>.               *)
(***************************************************************************)
EXTENDS Integers, Sequences, FiniteSets, TLC

VARIABLES
    \* operation registry (operation.rs)
    opIn,        \* the value handed to the first conversion: a byte or an Operation
    opMid,       \* result of the first conversion
    opOut,       \* result of converting opMid back
    \* request decoder (ctap2.rs, Request::deserialize)
    data,        \* the message bytes handed to Request::deserialize
    cbor,        \* what cbor_smol's cbor_deserialize answers for the body of data
    request,     \* the value Request::deserialize returned
    \* response encoder (ctap2.rs, Response::serialize)
    response,    \* the Response being serialized
    capacity,    \* N, the capacity of the heapless Vec handed to serialize
    stale,       \* what that Vec held when serialize was called
    buffer,      \* the contents of that Vec
    serialized,  \* "no", "yes", or "panic" (the unwrap on an empty buffer)
    \* dispatch (ctap2.rs, Authenticator::call_ctap2)
    callRequest, \* the Request handed to call_ctap2
    auth,        \* how the authenticator answers the method that is invoked on it
    calls,       \* the authenticator methods invoked so far, with their arguments
    callResult,  \* the value call_ctap2 returned
    \* COSE public keys (cose.rs)
    coseTarget,  \* the key type that is decoded into
    coseKey,     \* the key that is serialized, if the map comes from one
    coseMap,     \* the entries of the CBOR map handed to the decoder
    coseResult,  \* the value the decoder returned
    \* authenticator data (ctap2.rs, AuthenticatorData::serialize)
    authData,    \* the AuthenticatorData that is serialized
    authBytes,   \* the value serialize returned, or the panic of an unwrap
    \* CTAP1 (ctap1.rs, TryFrom<&Command> for Request)
    command,     \* the ISO 7816 command APDU
    u2fRequest,  \* the value Request::try_from returned
    \* CTAP1 (ctap1.rs, Response::serialize)
    u2fResponse, \* the ctap1 Response that is serialized
    u2fCapacity, \* S, the capacity of the iso7816::Data handed to serialize
    u2fBuffer,   \* the contents of that buffer
    u2fResult,   \* the value serialize returned
    \* WebAuthn entities (webauthn.rs)
    entityIn,    \* the entity as the CBOR library presents it to the decoder
    entityOut    \* the value the decoder returned

opVars == <<opIn, opMid, opOut>>
decodeVars == <<data, cbor, request>>
serializeVars == <<response, capacity, stale, buffer, serialized>>
callVars == <<callRequest, auth, calls, callResult>>
coseVars == <<coseTarget, coseKey, coseMap, coseResult>>
authDataVars == <<authData, authBytes>>
u2fVars == <<command, u2fRequest>>
u2fResponseVars == <<u2fResponse, u2fCapacity, u2fBuffer, u2fResult>>
webauthnVars == <<entityIn, entityOut>>

vars == <<opVars, decodeVars, serializeVars, callVars, coseVars, authDataVars, u2fVars,
          u2fResponseVars, webauthnVars>>

---------------------------------------------------------------------------
(* Bounds of the model *)

\* longest request body (bytes after the opcode)
MaxBodyLen == 2
\* longest CBOR encoding of a response body
MaxEncLen == 3
\* largest buffer capacity N
MaxCap == 4

\* bytes a request body is drawn from: an empty-map header, a small integer, a break code
BodyBytes == {160, 1, 255}
\* bytes the CBOR encoding of a response body is drawn from: empty-map header, small integer
EncBytes == {160, 1}
\* bytes a caller's buffer may hold before serialize is called
StaleBytes == {238}

U8 == 0..255

RECURSIVE SeqsUpTo(_, _)
SeqsUpTo(S, n) ==
    IF n = 0 THEN {<<>>}
    ELSE LET shorter == SeqsUpTo(S, n - 1)
         IN  shorter \cup {Append(s, x) : s \in {t \in shorter : Len(t) = n - 1}, x \in S}

---------------------------------------------------------------------------
(* Result and Option *)

None == <<"None">>
\* the value of a component's variables while another component is exercised
Idle == <<"Idle">>
Ok(v) == <<"Ok", v>>
Err(e) == <<"Err", e>>
IsOk(r) == r[1] = "Ok"
IsErr(r) == r[1] = "Err"
Unit == <<"()">>

---------------------------------------------------------------------------
(* operation.rs: the CTAP2 operation registry *)

\* enum Operation: the unit variants
NamedOperations ==
    {"MakeCredential", "GetAssertion", "GetNextAssertion", "GetInfo", "ClientPin",
     "Reset", "BioEnrollment", "CredentialManagement", "Selection", "LargeBlobs",
     "Config", "PreviewBioEnrollment", "PreviewCredentialManagement"}

\* VendorOperation::FIRST and VendorOperation::LAST
FIRST == 64
LAST == 127

\* struct VendorOperation(u8)
VendorOperation(code) == <<"VendorOperation", code>>
\* Operation::Vendor(VendorOperation)
Vendor(vendor_operation) == <<"Vendor", vendor_operation>>

\* impl TryFrom<u8> for VendorOperation
VendorOperationTryFrom(from) ==
    IF from >= FIRST /\ from <= LAST THEN Ok(VendorOperation(from)) ELSE Err(Unit)

\* impl From<VendorOperation> for u8
U8FromVendorOperation(operation) == operation[2]

\* the decoder with a vendor range that has no upper end
OperationTryFromOpenRange(from) ==
    IF from = 1 THEN Ok(<<"MakeCredential">>)
    ELSE IF from = 2 THEN Ok(<<"GetAssertion">>)
    ELSE IF from = 8 THEN Ok(<<"GetNextAssertion">>)
    ELSE IF from = 4 THEN Ok(<<"GetInfo">>)
    ELSE IF from = 6 THEN Ok(<<"ClientPin">>)
    ELSE IF from = 7 THEN Ok(<<"Reset">>)
    ELSE IF from = 9 THEN Ok(<<"BioEnrollment">>)
    ELSE IF from = 10 THEN Ok(<<"CredentialManagement">>)
    ELSE IF from = 11 THEN Ok(<<"Selection">>)
    ELSE IF from = 12 THEN Ok(<<"LargeBlobs">>)
    ELSE IF from = 13 THEN Ok(<<"Config">>)
    ELSE IF from = 64 THEN Ok(<<"PreviewBioEnrollment">>)
    ELSE IF from = 65 THEN Ok(<<"PreviewCredentialManagement">>)
    ELSE IF from >= FIRST THEN Ok(Vendor(VendorOperation(from)))
    ELSE Err(Unit)

\* the decoder with a vendor range that stops one short of LAST
OperationTryFromExclusiveLast(from) ==
    IF from = 1 THEN Ok(<<"MakeCredential">>)
    ELSE IF from = 2 THEN Ok(<<"GetAssertion">>)
    ELSE IF from = 8 THEN Ok(<<"GetNextAssertion">>)
    ELSE IF from = 4 THEN Ok(<<"GetInfo">>)
    ELSE IF from = 6 THEN Ok(<<"ClientPin">>)
    ELSE IF from = 7 THEN Ok(<<"Reset">>)
    ELSE IF from = 9 THEN Ok(<<"BioEnrollment">>)
    ELSE IF from = 10 THEN Ok(<<"CredentialManagement">>)
    ELSE IF from = 11 THEN Ok(<<"Selection">>)
    ELSE IF from = 12 THEN Ok(<<"LargeBlobs">>)
    ELSE IF from = 13 THEN Ok(<<"Config">>)
    ELSE IF from = 64 THEN Ok(<<"PreviewBioEnrollment">>)
    ELSE IF from = 65 THEN Ok(<<"PreviewCredentialManagement">>)
    ELSE IF from >= FIRST /\ from < LAST
         THEN LET v == VendorOperationTryFrom(from)
              IN  IF IsOk(v) THEN Ok(Vendor(v[2])) ELSE Err(Unit)
    ELSE Err(Unit)

\* the decoder with the vendor range tried before the two preview arms
OperationTryFromVendorFirst(from) ==
    IF from = 1 THEN Ok(<<"MakeCredential">>)
    ELSE IF from = 2 THEN Ok(<<"GetAssertion">>)
    ELSE IF from = 8 THEN Ok(<<"GetNextAssertion">>)
    ELSE IF from = 4 THEN Ok(<<"GetInfo">>)
    ELSE IF from = 6 THEN Ok(<<"ClientPin">>)
    ELSE IF from = 7 THEN Ok(<<"Reset">>)
    ELSE IF from = 9 THEN Ok(<<"BioEnrollment">>)
    ELSE IF from = 10 THEN Ok(<<"CredentialManagement">>)
    ELSE IF from = 11 THEN Ok(<<"Selection">>)
    ELSE IF from = 12 THEN Ok(<<"LargeBlobs">>)
    ELSE IF from = 13 THEN Ok(<<"Config">>)
    ELSE IF from >= FIRST /\ from <= LAST
         THEN LET v == VendorOperationTryFrom(from)
              IN  IF IsOk(v) THEN Ok(Vendor(v[2])) ELSE Err(Unit)
    ELSE IF from = 64 THEN Ok(<<"PreviewBioEnrollment">>)
    ELSE IF from = 65 THEN Ok(<<"PreviewCredentialManagement">>)
    ELSE Err(Unit)

\* impl TryFrom<u8> for Operation; the match arms are tried in source order
OperationTryFrom(from) ==
    IF from = 1 THEN Ok(<<"MakeCredential">>)
    ELSE IF from = 2 THEN Ok(<<"GetAssertion">>)
    ELSE IF from = 8 THEN Ok(<<"GetNextAssertion">>)
    ELSE IF from = 4 THEN Ok(<<"GetInfo">>)
    ELSE IF from = 6 THEN Ok(<<"ClientPin">>)
    ELSE IF from = 7 THEN Ok(<<"Reset">>)
    ELSE IF from = 9 THEN Ok(<<"BioEnrollment">>)
    ELSE IF from = 10 THEN Ok(<<"CredentialManagement">>)
    ELSE IF from = 11 THEN Ok(<<"Selection">>)
    ELSE IF from = 12 THEN Ok(<<"LargeBlobs">>)
    ELSE IF from = 13 THEN Ok(<<"Config">>)
    ELSE IF from = 64 THEN Ok(<<"PreviewBioEnrollment">>)
    ELSE IF from = 65 THEN Ok(<<"PreviewCredentialManagement">>)
    ELSE IF from >= FIRST /\ from <= LAST
         THEN LET v == VendorOperationTryFrom(from)
              IN  IF IsOk(v) THEN Ok(Vendor(v[2])) ELSE Err(Unit)
    ELSE Err(Unit)

\* the encoder with the opcodes of ClientPin and Reset exchanged
U8FromOperationSwapped(operation) ==
    CASE operation[1] = "MakeCredential" -> 1
      [] operation[1] = "GetAssertion" -> 2
      [] operation[1] = "GetNextAssertion" -> 8
      [] operation[1] = "GetInfo" -> 4
      [] operation[1] = "ClientPin" -> 7
      [] operation[1] = "Reset" -> 6
      [] operation[1] = "BioEnrollment" -> 9
      [] operation[1] = "CredentialManagement" -> 10
      [] operation[1] = "Selection" -> 11
      [] operation[1] = "LargeBlobs" -> 12
      [] operation[1] = "Config" -> 13
      [] operation[1] = "PreviewBioEnrollment" -> 64
      [] operation[1] = "PreviewCredentialManagement" -> 65
      [] operation[1] = "Vendor" -> U8FromVendorOperation(operation[2])

\* impl From<Operation> for u8
U8FromOperation(operation) ==
    CASE operation[1] = "MakeCredential" -> 1
      [] operation[1] = "GetAssertion" -> 2
      [] operation[1] = "GetNextAssertion" -> 8
      [] operation[1] = "GetInfo" -> 4
      [] operation[1] = "ClientPin" -> 6
      [] operation[1] = "Reset" -> 7
      [] operation[1] = "BioEnrollment" -> 9
      [] operation[1] = "CredentialManagement" -> 10
      [] operation[1] = "Selection" -> 11
      [] operation[1] = "LargeBlobs" -> 12
      [] operation[1] = "Config" -> 13
      [] operation[1] = "PreviewBioEnrollment" -> 64
      [] operation[1] = "PreviewCredentialManagement" -> 65
      [] operation[1] = "Vendor" -> U8FromVendorOperation(operation[2])

\* every VendorOperation a caller can obtain: VendorOperation::try_from is the only constructor
VendorOperations == {VendorOperationTryFrom(b)[2] : b \in {c \in U8 : IsOk(VendorOperationTryFrom(c))}}

\* every Operation value a caller can construct
Operations == {<<n>> : n \in NamedOperations} \cup {Vendor(v) : v \in VendorOperations}

\* the conversion inputs of the registry: a byte or an Operation
OpInit ==
    /\ opIn \in {<<"u8", b>> : b \in U8} \cup {<<"Operation", op>> : op \in Operations}
    /\ opMid = None
    /\ opOut = None

\* Operation::try_from(byte), applied to the input byte or to the byte an Operation encoded to
TryFromU8 ==
    /\ \/ /\ opIn[1] = "u8" /\ opMid[1] = "None"
          /\ opMid' = OperationTryFrom(opIn[2])
          /\ opOut' = opOut
       \/ /\ opMid[1] = "u8" /\ opOut[1] = "None"
          /\ opOut' = OperationTryFrom(opMid[2])
          /\ opMid' = opMid
    /\ UNCHANGED <<opIn, decodeVars, serializeVars, callVars, coseVars, authDataVars, u2fVars,
                   u2fResponseVars, webauthnVars>>

\* u8::from(operation), applied to the input Operation or to the Operation a byte decoded to
IntoU8 ==
    /\ \/ /\ opIn[1] = "Operation" /\ opMid[1] = "None"
          /\ opMid' = <<"u8", U8FromOperation(opIn[2])>>
          /\ opOut' = opOut
       \/ /\ opMid[1] = "Ok" /\ opOut[1] = "None"
          /\ opOut' = <<"u8", U8FromOperation(opMid[2])>>
          /\ opMid' = opMid
    /\ UNCHANGED <<opIn, decodeVars, serializeVars, callVars, coseVars, authDataVars, u2fVars,
                   u2fResponseVars, webauthnVars>>

---------------------------------------------------------------------------
(* ctap2.rs: status codes and the request decoder *)

\* enum Error: the discriminant of each status code
ErrorCode(e) ==
    CASE e = "Success" -> 0
      [] e = "InvalidCommand" -> 1
      [] e = "InvalidParameter" -> 2
      [] e = "InvalidLength" -> 3
      [] e = "InvalidSeq" -> 4
      [] e = "Timeout" -> 5
      [] e = "ChannelBusy" -> 6
      [] e = "LockRequired" -> 10
      [] e = "InvalidChannel" -> 11
      [] e = "CborUnexpectedType" -> 17
      [] e = "InvalidCbor" -> 18
      [] e = "MissingParameter" -> 20
      [] e = "LimitExceeded" -> 21
      [] e = "UnsupportedExtension" -> 22
      [] e = "FingerprintDatabaseFull" -> 23
      [] e = "LargeBlobStorageFull" -> 24
      [] e = "CredentialExcluded" -> 25
      [] e = "Processing" -> 33
      [] e = "InvalidCredential" -> 34
      [] e = "UserActionPending" -> 35
      [] e = "OperationPending" -> 36
      [] e = "NoOperations" -> 37
      [] e = "UnsupportedAlgorithm" -> 38
      [] e = "OperationDenied" -> 39
      [] e = "KeyStoreFull" -> 40
      [] e = "NotBusy" -> 41
      [] e = "NoOperationPending" -> 42
      [] e = "UnsupportedOption" -> 43
      [] e = "InvalidOption" -> 44
      [] e = "KeepaliveCancel" -> 45
      [] e = "NoCredentials" -> 46
      [] e = "UserActionTimeout" -> 47
      [] e = "NotAllowed" -> 48
      [] e = "PinInvalid" -> 49
      [] e = "PinBlocked" -> 50
      [] e = "PinAuthInvalid" -> 51
      [] e = "PinAuthBlocked" -> 52
      [] e = "PinNotSet" -> 53
      [] e = "PinRequired" -> 54
      [] e = "PinPolicyViolation" -> 55
      [] e = "PinTokenExpired" -> 56
      [] e = "RequestTooLarge" -> 57
      [] e = "ActionTimeout" -> 58
      [] e = "UpRequired" -> 59
      [] e = "UvBlocked" -> 60
      [] e = "IntegrityFailure" -> 61
      [] e = "InvalidSubcommand" -> 62
      [] e = "UvInvalid" -> 63
      [] e = "UnauthorizedPermission" -> 64
      [] e = "Other" -> 127
      [] e = "SpecLast" -> 223
      [] e = "ExtensionFirst" -> 224
      [] e = "ExtensionLast" -> 239
      [] e = "VendorFirst" -> 240
      [] e = "VendorLast" -> 255

\* the variants of cbor_smol::Error a body decode is answered with here:
\* the two the decoder names and two of the others
CborErrors == {"SerdeMissingField", "DeserializeUnexpectedEnd", "DeserializeBadMajor", "SerdeDeCustom"}

\* enum CtapMappingError
InvalidCommand(cmd) == <<"InvalidCommand", cmd>>
ParsingError(cbor_error) == <<"ParsingError", cbor_error>>

\* the mapping with its two parsing arms exchanged
ErrorFromSwapped(mapping_error) ==
    IF mapping_error[1] = "InvalidCommand" THEN "InvalidCommand"
    ELSE IF mapping_error[2] = "SerdeMissingField" THEN "InvalidCbor"
    ELSE "MissingParameter"

\* the mapping without the arm for SerdeMissingField
ErrorFromNoMissingField(mapping_error) ==
    IF mapping_error[1] = "InvalidCommand" THEN "InvalidCommand"
    ELSE "InvalidCbor"

\* impl From<CtapMappingError> for Error
ErrorFrom(mapping_error) ==
    IF mapping_error[1] = "InvalidCommand" THEN "InvalidCommand"
    ELSE IF mapping_error[2] = "SerdeMissingField" THEN "MissingParameter"
    ELSE "InvalidCbor"

\* cbor_deserialize(data) into the request type `ty`: the answer of the CBOR
\* library, `outcome`, is Ok(Unit) or Err(e); a decoded body is kept as the
\* type it was decoded into and the bytes it was decoded from
CborDeserialize(ty, body, outcome) ==
    IF IsOk(outcome) THEN Ok(<<ty, body>>) ELSE outcome

\* cbor_deserialize(data).map_err(CtapMappingError::ParsingError)? wrapped in a variant
DecodeBody(variant, ty, body, outcome) ==
    LET parsed == CborDeserialize(ty, body, outcome)
    IN  IF IsOk(parsed) THEN Ok(<<variant, parsed[2]>>)
        ELSE Err(ErrorFrom(ParsingError(parsed[2])))

\* the decoder with the LargeBlobs operation routed to a body decoder
RequestDeserializeLargeBlobs(bytes, outcome) ==
    IF Len(bytes) = 0 THEN Err(ErrorFrom(ParsingError("DeserializeUnexpectedEnd")))
    ELSE
    LET op == Head(bytes)
        body == Tail(bytes)
        operation == OperationTryFrom(op)
    IN  IF IsErr(operation) THEN Err(ErrorFrom(InvalidCommand(op)))
        ELSE LET o == operation[2][1]
             IN  CASE o = "MakeCredential" ->
                        DecodeBody("MakeCredential", "make_credential::Request", body, outcome)
                   [] o = "GetAssertion" ->
                        DecodeBody("GetAssertion", "get_assertion::Request", body, outcome)
                   [] o = "GetNextAssertion" -> Ok(<<"GetNextAssertion">>)
                   [] o \in {"CredentialManagement", "PreviewCredentialManagement"} ->
                        DecodeBody("CredentialManagement", "credential_management::Request", body, outcome)
                   [] o = "Reset" -> Ok(<<"Reset">>)
                   [] o = "GetInfo" -> Ok(<<"GetInfo">>)
                   [] o = "ClientPin" ->
                        DecodeBody("ClientPin", "client_pin::Request", body, outcome)
                   [] o = "Vendor" -> Ok(<<"Vendor", operation[2][2]>>)
                   [] o = "LargeBlobs" ->
                        DecodeBody("LargeBlobs", "large_blobs::Request", body, outcome)
                   [] o \in {"BioEnrollment", "PreviewBioEnrollment", "Config", "Selection"} ->
                        Err(ErrorFrom(InvalidCommand(op)))

\* the decoder with Reset decoding the remaining bytes as a body
RequestDeserializeDecodesReset(bytes, outcome) ==
    IF Len(bytes) = 0 THEN Err(ErrorFrom(ParsingError("DeserializeUnexpectedEnd")))
    ELSE
    LET op == Head(bytes)
        body == Tail(bytes)
        operation == OperationTryFrom(op)
    IN  IF IsErr(operation) THEN Err(ErrorFrom(InvalidCommand(op)))
        ELSE LET o == operation[2][1]
             IN  CASE o = "MakeCredential" ->
                        DecodeBody("MakeCredential", "make_credential::Request", body, outcome)
                   [] o = "GetAssertion" ->
                        DecodeBody("GetAssertion", "get_assertion::Request", body, outcome)
                   [] o = "GetNextAssertion" -> Ok(<<"GetNextAssertion">>)
                   [] o \in {"CredentialManagement", "PreviewCredentialManagement"} ->
                        DecodeBody("CredentialManagement", "credential_management::Request", body, outcome)
                   [] o = "Reset" ->
                        IF IsOk(outcome) THEN Ok(<<"Reset">>)
                        ELSE Err(ErrorFrom(ParsingError(outcome[2])))
                   [] o = "GetInfo" -> Ok(<<"GetInfo">>)
                   [] o = "ClientPin" ->
                        DecodeBody("ClientPin", "client_pin::Request", body, outcome)
                   [] o = "Vendor" -> Ok(<<"Vendor", operation[2][2]>>)
                   [] o \in {"BioEnrollment", "PreviewBioEnrollment", "Config", "LargeBlobs", "Selection"} ->
                        Err(ErrorFrom(InvalidCommand(op)))

\* Request::deserialize
RequestDeserialize(bytes, outcome) ==
    IF Len(bytes) = 0 THEN Err(ErrorFrom(ParsingError("DeserializeUnexpectedEnd")))
    ELSE
    LET op == Head(bytes)
        body == Tail(bytes)
        operation == OperationTryFrom(op)
    IN  IF IsErr(operation) THEN Err(ErrorFrom(InvalidCommand(op)))
        ELSE LET o == operation[2][1]
             IN  CASE o = "MakeCredential" ->
                        DecodeBody("MakeCredential", "make_credential::Request", body, outcome)
                   [] o = "GetAssertion" ->
                        DecodeBody("GetAssertion", "get_assertion::Request", body, outcome)
                   [] o = "GetNextAssertion" -> Ok(<<"GetNextAssertion">>)
                   [] o \in {"CredentialManagement", "PreviewCredentialManagement"} ->
                        DecodeBody("CredentialManagement", "credential_management::Request", body, outcome)
                   [] o = "Reset" -> Ok(<<"Reset">>)
                   [] o = "GetInfo" -> Ok(<<"GetInfo">>)
                   [] o = "ClientPin" ->
                        DecodeBody("ClientPin", "client_pin::Request", body, outcome)
                   [] o = "Vendor" -> Ok(<<"Vendor", operation[2][2]>>)
                   [] o \in {"BioEnrollment", "PreviewBioEnrollment", "Config", "LargeBlobs", "Selection"} ->
                        Err(ErrorFrom(InvalidCommand(op)))

\* the messages a transport can hand over: nothing, or an opcode and a body
Messages == {<<>>} \cup {<<op>> \o body : op \in U8, body \in SeqsUpTo(BodyBytes, MaxBodyLen)}

\* the answers of the CBOR library for a body: decoded, or one of its errors;
\* for an empty body it is always the unexpected end
CborOutcomes(bytes) ==
    IF Len(bytes) <= 1 THEN {Err("DeserializeUnexpectedEnd")}
    ELSE {Ok(Unit)} \cup {Err(e) : e \in CborErrors}

DecodeInit ==
    /\ data \in Messages
    /\ cbor \in CborOutcomes(data)
    /\ request = None

\* one call of Request::deserialize(data)
Deserialize ==
    /\ request[1] = "None"
    /\ request' = RequestDeserialize(data, cbor)
    /\ UNCHANGED <<data, cbor, opVars, serializeVars, callVars, coseVars, authDataVars, u2fVars,
                   u2fResponseVars, webauthnVars>>

---------------------------------------------------------------------------
(* ctap2.rs: the response encoder *)

\* the variants of enum Response that wrap a body, and the two that do not
BodyVariants ==
    {"MakeCredential", "GetAssertion", "GetNextAssertion", "GetInfo", "ClientPin",
     "CredentialManagement", "LargeBlobs"}
StatusOnlyVariants == {"Reset", "Vendor"}

\* a response body as the serializer sees it: the bytes its CBOR encoding
\* consists of, and whether its Serialize implementation reports an error
Body(enc, fault) == [enc |-> enc, fault |-> fault]

\* the CBOR encodings of a body: at least the map header
Encodings == SeqsUpTo(EncBytes, MaxEncLen) \ {<<>>}

\* enum Response
Responses ==
    {<<v, Body(enc, fault)>> : v \in BodyVariants, enc \in Encodings, fault \in BOOLEAN}
    \cup {<<v>> : v \in StatusOnlyVariants}

Min(a, b) == IF a <= b THEN a ELSE b
Zeros(n) == [i \in 1..n |-> 0]

\* heapless Vec::resize_default(new_len) on a Vec of capacity N: refused
\* beyond the capacity (the caller drops the Err), otherwise padded with
\* zeros or truncated
ResizeDefault(vec, N, new_len) ==
    IF new_len > N THEN vec
    ELSE IF new_len > Len(vec) THEN vec \o Zeros(new_len - Len(vec))
    ELSE SubSeq(vec, 1, new_len)

\* cbor_serialize(response, data): writes the encoding into the front of the
\* slice and returns the written part, or fails when the slice is full or the
\* body reports an error, leaving what was written so far in the slice
CborSerialize(body, slice) ==
    LET written == Min(Len(body.enc), Len(slice))
        after == SubSeq(body.enc, 1, written) \o SubSeq(slice, written + 1, Len(slice))
    IN  IF Len(body.enc) > Len(slice) THEN [result |-> Err("SerializeBufferFull"), data |-> after]
        ELSE IF body.fault THEN [result |-> Err("SerdeSerCustom"), data |-> after]
        ELSE [result |-> Ok(body.enc), data |-> after]

\* Response::serialize with the error branch leaving the buffer at full length
ResponseSerializeKeepsBody(self, vec, N) ==
    LET full == ResizeDefault(vec, N, N)
    IN  IF Len(full) = 0 THEN [panic |-> TRUE, buffer |-> full]
        ELSE LET outcome == IF self[1] \in StatusOnlyVariants
                            THEN [result |-> Ok(<<>>), data |-> Tail(full)]
                            ELSE CborSerialize(self[2], Tail(full))
             IN  IF IsOk(outcome.result)
                 THEN [panic |-> FALSE,
                       buffer |-> ResizeDefault(<<0>> \o outcome.data, N, Len(outcome.result[2]) + 1)]
                 ELSE [panic |-> FALSE,
                       buffer |-> <<ErrorCode("Other")>> \o outcome.data]

\* Response::serialize with the final length one short (l instead of l + 1)
ResponseSerializeOffByOne(self, vec, N) ==
    LET full == ResizeDefault(vec, N, N)
    IN  IF Len(full) = 0 THEN [panic |-> TRUE, buffer |-> full]
        ELSE LET outcome == IF self[1] \in StatusOnlyVariants
                            THEN [result |-> Ok(<<>>), data |-> Tail(full)]
                            ELSE CborSerialize(self[2], Tail(full))
             IN  IF IsOk(outcome.result)
                 THEN [panic |-> FALSE,
                       buffer |-> ResizeDefault(<<0>> \o outcome.data, N, Len(outcome.result[2]))]
                 ELSE [panic |-> FALSE,
                       buffer |-> ResizeDefault(<<ErrorCode("Other")>> \o outcome.data, N, 1)]

\* Response::serialize on a Vec<u8, N> holding vec: the new contents, or the
\* panic of split_first_mut().unwrap() on a Vec that is still empty
ResponseSerialize(self, vec, N) ==
    LET full == ResizeDefault(vec, N, N)
    IN  IF Len(full) = 0 THEN [panic |-> TRUE, buffer |-> full]
        ELSE LET outcome == IF self[1] \in StatusOnlyVariants
                            THEN [result |-> Ok(<<>>), data |-> Tail(full)]
                            ELSE CborSerialize(self[2], Tail(full))
             IN  IF IsOk(outcome.result)
                 THEN [panic |-> FALSE,
                       buffer |-> ResizeDefault(<<0>> \o outcome.data, N, Len(outcome.result[2]) + 1)]
                 ELSE [panic |-> FALSE,
                       buffer |-> ResizeDefault(<<ErrorCode("Other")>> \o outcome.data, N, 1)]

SerializeInit ==
    /\ response \in Responses
    /\ capacity \in 0..MaxCap
    /\ stale \in SeqsUpTo(StaleBytes, capacity)
    /\ buffer = stale
    /\ serialized = "no"

\* one call of response.serialize(&mut buffer)
Serialize ==
    /\ serialized = "no"
    /\ response[1] # "Idle"
    /\ LET r == ResponseSerialize(response, buffer, capacity)
       IN  /\ buffer' = r.buffer
           /\ serialized' = IF r.panic THEN "panic" ELSE "yes"
    /\ UNCHANGED <<response, capacity, stale, opVars, decodeVars, callVars, coseVars, authDataVars, u2fVars,
                   u2fResponseVars, webauthnVars>>

---------------------------------------------------------------------------
(* ctap2.rs: trait Authenticator and the dispatch of call_ctap2 *)

\* the variants of enum Request that wrap a decoded body, with the type of that body
RequestTypes ==
    [MakeCredential |-> "make_credential::Request",
     GetAssertion |-> "get_assertion::Request",
     ClientPin |-> "client_pin::Request",
     CredentialManagement |-> "credential_management::Request",
     LargeBlobs |-> "large_blobs::Request"]

\* enum Request: every value a caller can hand to call_ctap2
Requests ==
    {<<"GetInfo">>, <<"Reset">>, <<"GetNextAssertion">>}
    \cup {<<v, <<RequestTypes[v], body>>>> :
            v \in DOMAIN RequestTypes, body \in SeqsUpTo(BodyBytes, MaxBodyLen) \ {<<>>}}
    \cup {<<"Vendor", v>> : v \in VendorOperations}

\* the errors the authenticator answers with here
AuthErrors == {"OperationDenied", "PinRequired"}

\* the answer of the authenticator to the method invoked on it: the response
\* it has at hand and, for a method that returns a Result, the error it
\* returns instead of it ("none" when it returns Ok)
AuthAnswers ==
    [value : {Body(enc, fault) : enc \in Encodings, fault \in BOOLEAN},
     error : {"none"} \cup AuthErrors]

\* fn get_info(&mut self) -> get_info::Response
AuthGetInfo(answer) == answer.value
\* the methods that return Result<Response>
AuthMethod(answer) == IF answer.error = "none" THEN Ok(answer.value) ELSE Err(answer.error)
\* reset and vendor, which return Result<()>
AuthUnitMethod(answer) == IF answer.error = "none" THEN Ok(Unit) ELSE Err(answer.error)

\* the arm with every error replaced by Error::Other
WrapAsOther(variant, r) == IF IsOk(r) THEN Ok(<<variant, r[2]>>) ELSE Err("Other")

\* Ok(Response::Variant(self.method(request).map_err(|e| e)?))
Wrap(variant, r) == IF IsOk(r) THEN Ok(<<variant, r[2]>>) ELSE r

\* self.method().map_err(|e| e)?; Ok(Response::Variant)
WrapUnit(variant, r) == IF IsOk(r) THEN Ok(<<variant>>) ELSE r

\* the dispatch with the GetNextAssertion arm a copy of the GetAssertion arm
CallCtap2CopiedArm(req, answer) ==
    CASE req[1] = "GetInfo" ->
            [calls |-> <<<<"get_info">>>>,
             result |-> Ok(<<"GetInfo", AuthGetInfo(answer)>>)]
      [] req[1] = "MakeCredential" ->
            [calls |-> <<<<"make_credential", req[2]>>>>,
             result |-> Wrap("MakeCredential", AuthMethod(answer))]
      [] req[1] = "GetAssertion" ->
            [calls |-> <<<<"get_assertion", req[2]>>>>,
             result |-> Wrap("GetAssertion", AuthMethod(answer))]
      [] req[1] = "GetNextAssertion" ->
            [calls |-> <<<<"get_next_assertion">>>>,
             result |-> Wrap("GetAssertion", AuthMethod(answer))]
      [] req[1] = "Reset" ->
            [calls |-> <<<<"reset">>>>,
             result |-> WrapUnit("Reset", AuthUnitMethod(answer))]
      [] req[1] = "ClientPin" ->
            [calls |-> <<<<"client_pin", req[2]>>>>,
             result |-> Wrap("ClientPin", AuthMethod(answer))]
      [] req[1] = "CredentialManagement" ->
            [calls |-> <<<<"credential_management", req[2]>>>>,
             result |-> Wrap("CredentialManagement", AuthMethod(answer))]
      [] req[1] = "LargeBlobs" ->
            [calls |-> <<<<"large_blobs", req[2]>>>>,
             result |-> Wrap("LargeBlobs", AuthMethod(answer))]
      [] req[1] = "Vendor" ->
            [calls |-> <<<<"vendor", req[2]>>>>,
             result |-> WrapUnit("Vendor", AuthUnitMethod(answer))]

\* Authenticator::call_ctap2
CallCtap2(req, answer) ==
    CASE req[1] = "GetInfo" ->
            [calls |-> <<<<"get_info">>>>,
             result |-> Ok(<<"GetInfo", AuthGetInfo(answer)>>)]
      [] req[1] = "MakeCredential" ->
            [calls |-> <<<<"make_credential", req[2]>>>>,
             result |-> Wrap("MakeCredential", AuthMethod(answer))]
      [] req[1] = "GetAssertion" ->
            [calls |-> <<<<"get_assertion", req[2]>>>>,
             result |-> Wrap("GetAssertion", AuthMethod(answer))]
      [] req[1] = "GetNextAssertion" ->
            [calls |-> <<<<"get_next_assertion">>>>,
             result |-> Wrap("GetNextAssertion", AuthMethod(answer))]
      [] req[1] = "Reset" ->
            [calls |-> <<<<"reset">>>>,
             result |-> WrapUnit("Reset", AuthUnitMethod(answer))]
      [] req[1] = "ClientPin" ->
            [calls |-> <<<<"client_pin", req[2]>>>>,
             result |-> Wrap("ClientPin", AuthMethod(answer))]
      [] req[1] = "CredentialManagement" ->
            [calls |-> <<<<"credential_management", req[2]>>>>,
             result |-> Wrap("CredentialManagement", AuthMethod(answer))]
      [] req[1] = "LargeBlobs" ->
            [calls |-> <<<<"large_blobs", req[2]>>>>,
             result |-> Wrap("LargeBlobs", AuthMethod(answer))]
      [] req[1] = "Vendor" ->
            [calls |-> <<<<"vendor", req[2]>>>>,
             result |-> WrapUnit("Vendor", AuthUnitMethod(answer))]

CallInit ==
    /\ callRequest \in Requests
    /\ auth \in AuthAnswers
    /\ calls = <<>>
    /\ callResult = None

\* one call of authenticator.call_ctap2(&request)
Call ==
    /\ callResult[1] = "None"
    /\ LET c == CallCtap2(callRequest, auth)
       IN  /\ calls' = calls \o c.calls
           /\ callResult' = c.result
    /\ UNCHANGED <<callRequest, auth, opVars, decodeVars, serializeVars, coseVars, authDataVars, u2fVars,
                   u2fResponseVars, webauthnVars>>

---------------------------------------------------------------------------
(* ctap2.rs: a message taken through deserialize, call_ctap2 and serialize *)

\* the answers of the authenticator in the sequence
SequenceAnswers ==
    [value : {Body(<<160>>, fault) : fault \in BOOLEAN},
     error : {"none", "OperationDenied"}]

\* the buffer capacities of the sequence: a header only, and the largest
SequenceCapacities == {1, MaxCap}

SequenceInit ==
    /\ DecodeInit
    /\ callRequest = Idle
    /\ auth \in SequenceAnswers
    /\ calls = <<>>
    /\ callResult = None
    /\ response = Idle
    /\ capacity \in SequenceCapacities
    /\ stale = <<>>
    /\ buffer = <<>>
    /\ serialized = "no"

\* authenticator.call_ctap2(&request) on the request that was decoded
CallDecoded ==
    /\ request[1] = "Ok"
    /\ callResult[1] = "None"
    /\ callRequest' = request[2]
    /\ LET c == CallCtap2(request[2], auth)
       IN  /\ calls' = calls \o c.calls
           /\ callResult' = c.result
    /\ UNCHANGED <<auth, opVars, decodeVars, serializeVars, coseVars, authDataVars, u2fVars,
                   u2fResponseVars, webauthnVars>>

\* response.serialize(&mut buffer) on the response that call_ctap2 returned
SerializeReturned ==
    /\ callResult[1] = "Ok"
    /\ serialized = "no"
    /\ response' = callResult[2]
    /\ LET r == ResponseSerialize(callResult[2], buffer, capacity)
       IN  /\ buffer' = r.buffer
           /\ serialized' = IF r.panic THEN "panic" ELSE "yes"
    /\ UNCHANGED <<capacity, stale, opVars, decodeVars, callVars, coseVars, authDataVars, u2fVars,
                   u2fResponseVars, webauthnVars>>

---------------------------------------------------------------------------
(* cose.rs: COSE public keys *)

Some(v) == <<"Some", v>>

\* A CBOR map is the sequence of its entries <<key, value>>; a key is an
\* integer, a value is <<"int", n>>, <<"bytes", b>> or <<"text", t>>.
IntValue(n) == <<"int", n>>
ByteString(b) == <<"bytes", b>>
Text(t) == <<"text", t>>

\* the errors of serde::de::Error the decoders build
Custom(msg) == <<"custom", msg>>
MissingField(field) == <<"missing_field", field>>
InvalidValue(unexpected, expected) == <<"invalid_value", unexpected, expected>>

\* enum Label and impl TryFrom<i8> for Label
LabelTryFrom(label) ==
    IF label = 1 THEN Ok("Kty")
    ELSE IF label = 3 THEN Ok("Alg")
    ELSE IF label = -1 THEN Ok("Crv")
    ELSE IF label = -2 THEN Ok("X")
    ELSE IF label = -3 THEN Ok("Y")
    ELSE Err("TryFromIntError")

\* Label as i8
LabelAsI8 == [Kty |-> 1, Alg |-> 3, Crv |-> -1, X |-> -2, Y |-> -3]

\* the discriminants of enum Kty, enum Alg and enum Crv
KtyValues == {1, 2, 4}
AlgValues == {-7, -8, -9, -25}
CrvValues == {0, 1, 4, 6}
\* Crv::None
CrvNone == 0
\* the capacity of Bytes<32>
CoordinateCapacity == 32

\* trait PublicKeyConstants: KTY, ALG and CRV of each key type
KeyConstants ==
    [P256PublicKey |-> [KTY |-> 2, ALG |-> -7, CRV |-> 1],
     EcdhEsHkdf256PublicKey |-> [KTY |-> 2, ALG |-> -25, CRV |-> 1],
     Ed25519PublicKey |-> [KTY |-> 1, ALG |-> -8, CRV |-> 6],
     TotpPublicKey |-> [KTY |-> 4, ALG |-> -9, CRV |-> 0]]

\* the key types that have a Deserialize implementation
KeyTypes == {"P256PublicKey", "EcdhEsHkdf256PublicKey", "Ed25519PublicKey"}
\* those of them with a y coordinate
Ec2KeyTypes == {"P256PublicKey", "EcdhEsHkdf256PublicKey"}

\* RawPublicKey::default()
RawDefault == [kty |-> None, alg |-> None, crv |-> None, x |-> None, y |-> None]

\* the field of RawPublicKey a label is stored in
FieldOf == [Kty |-> "kty", Alg |-> "alg", Crv |-> "crv", X |-> "x", Y |-> "y"]

\* next_key inside visit_map, for the entry at position pos: map.next_key()
\* as Option<i8>, then Key::Label, Key::Unknown or Key::None
NextKey(map, pos) ==
    IF pos > Len(map) THEN Ok(<<"None">>)
    ELSE LET key == map[pos][1]
         IN  IF key < -128 \/ key > 127 THEN Err(Custom("key is not an i8"))
             ELSE LET label == LabelTryFrom(key)
                  IN  IF IsOk(label) THEN Ok(<<"Label", label[2]>>)
                      ELSE Ok(<<"Unknown", key>>)

\* map.next_value() into the type of the field: one of the repr(i8) enums or Bytes<32>
NextValue(label, value) ==
    IF label \in {"X", "Y"}
    THEN IF value[1] = "bytes" /\ Len(value[2]) <= CoordinateCapacity
         THEN Ok(value[2]) ELSE Err(Custom("invalid bytes"))
    ELSE IF value[1] # "int" THEN Err(Custom("invalid type"))
    ELSE IF label = "Kty" /\ value[2] \in KtyValues THEN Ok(value[2])
    ELSE IF label = "Alg" /\ value[2] \in AlgValues THEN Ok(value[2])
    ELSE IF label = "Crv" /\ value[2] \in CrvValues THEN Ok(value[2])
    ELSE Err(Custom("invalid discriminant"))

\* the state of visit_map: the key read last, its position, the key built
\* so far, and the error that ended the visit, if any
VisitStart(map) ==
    LET key == NextKey(map, 1)
    IN  [key |-> IF IsOk(key) THEN key[2] ELSE <<"None">>,
         pos |-> 1,
         public_key |-> RawDefault,
         error |-> IF IsOk(key) THEN None ELSE key]

\* one block of visit_map:
\*   if key == Key::Label(label) { field = Some(map.next_value()?); key = next_key(&mut map)?; }
VisitField(map, st, label) ==
    IF st.error[1] # "None" THEN st
    ELSE IF st.key[1] = "Label" /\ st.key[2] = label
    THEN LET value == NextValue(label, map[st.pos][2])
             key == NextKey(map, st.pos + 1)
         IN  IF IsErr(value) THEN [st EXCEPT !.error = value]
             ELSE IF IsErr(key) THEN [st EXCEPT !.error = key]
             ELSE [key |-> key[2],
                   pos |-> st.pos + 1,
                   public_key |-> [st.public_key EXCEPT ![FieldOf[label]] = Some(value[2])],
                   error |-> None]
    ELSE st

\* an end of visit_map that accepts no unread key at all
VisitEndStrict(st) ==
    IF st.error[1] # "None" THEN st.error
    ELSE IF st.key[1] # "None"
    THEN Err(Custom("public key data in wrong order or with duplicates"))
    ELSE Ok(st.public_key)

\* the end of visit_map: a known label that is still unread is an error
VisitEnd(st) ==
    IF st.error[1] # "None" THEN st.error
    ELSE IF st.key[1] = "Label"
    THEN Err(Custom("public key data in wrong order or with duplicates"))
    ELSE Ok(st.public_key)

\* a visit_map that goes through its blocks a second time
RawDeserializeTwoPasses(map) ==
    LET s0 == VisitStart(map)
        s1 == VisitField(map, s0, "Kty")
        s2 == VisitField(map, s1, "Alg")
        s3 == VisitField(map, s2, "Crv")
        s4 == VisitField(map, s3, "X")
        s5 == VisitField(map, s4, "Y")
        t1 == VisitField(map, s5, "Kty")
        t2 == VisitField(map, t1, "Alg")
        t3 == VisitField(map, t2, "Crv")
        t4 == VisitField(map, t3, "X")
        t5 == VisitField(map, t4, "Y")
    IN  VisitEnd(t5)

\* impl Deserialize for RawPublicKey: visit_map reads the fields in
\* canonical order and stops at the first key that is not the next field
RawDeserialize(map) ==
    LET s0 == VisitStart(map)
        s1 == VisitField(map, s0, "Kty")
        s2 == VisitField(map, s1, "Alg")
        s3 == VisitField(map, s2, "Crv")
        s4 == VisitField(map, s3, "X")
        s5 == VisitField(map, s4, "Y")
    IN  VisitEnd(s5)

\* a serializer that writes y before x
RawSerializeYFirst(raw) ==
    (IF raw.kty[1] = "Some" THEN <<(<<LabelAsI8.Kty, IntValue(raw.kty[2])>>)>> ELSE <<>>)
    \o (IF raw.alg[1] = "Some" THEN <<(<<LabelAsI8.Alg, IntValue(raw.alg[2])>>)>> ELSE <<>>)
    \o (IF raw.crv[1] = "Some" THEN <<(<<LabelAsI8.Crv, IntValue(raw.crv[2])>>)>> ELSE <<>>)
    \o (IF raw.y[1] = "Some" THEN <<(<<LabelAsI8.Y, ByteString(raw.y[2])>>)>> ELSE <<>>)
    \o (IF raw.x[1] = "Some" THEN <<(<<LabelAsI8.X, ByteString(raw.x[2])>>)>> ELSE <<>>)

\* impl Serialize for RawPublicKey: the entries of the fields that are set,
\* in the order kty, alg, crv, x, y
RawSerialize(raw) ==
    (IF raw.kty[1] = "Some" THEN <<(<<LabelAsI8.Kty, IntValue(raw.kty[2])>>)>> ELSE <<>>)
    \o (IF raw.alg[1] = "Some" THEN <<(<<LabelAsI8.Alg, IntValue(raw.alg[2])>>)>> ELSE <<>>)
    \o (IF raw.crv[1] = "Some" THEN <<(<<LabelAsI8.Crv, IntValue(raw.crv[2])>>)>> ELSE <<>>)
    \o (IF raw.x[1] = "Some" THEN <<(<<LabelAsI8.X, ByteString(raw.x[2])>>)>> ELSE <<>>)
    \o (IF raw.y[1] = "Some" THEN <<(<<LabelAsI8.Y, ByteString(raw.y[2])>>)>> ELSE <<>>)

\* the public key structs: P256PublicKey { x, y }, EcdhEsHkdf256PublicKey { x, y },
\* Ed25519PublicKey { x }
Ec2Key(type, x, y) == <<type, x, y>>
OkpKey(type, x) == <<type, x>>

\* impl From<P256PublicKey / EcdhEsHkdf256PublicKey / Ed25519PublicKey> for RawPublicKey
RawFrom(key) ==
    [kty |-> Some(KeyConstants[key[1]].KTY),
     alg |-> Some(KeyConstants[key[1]].ALG),
     crv |-> Some(KeyConstants[key[1]].CRV),
     x |-> Some(key[2]),
     y |-> IF key[1] \in Ec2KeyTypes THEN Some(key[3]) ELSE None]

\* #[serde(into = "RawPublicKey")]: a key is serialized as its RawPublicKey
KeySerialize(key) == RawSerialize(RawFrom(key))

\* a check_key_constants that leaves the curve unchecked
CheckKeyConstantsNoCrv(K, kty, alg, crv) ==
    IF kty[1] # "Some" THEN Err(MissingField("kty"))
    ELSE IF alg[1] # "Some" THEN Err(MissingField("alg"))
    ELSE IF kty[2] # KeyConstants[K].KTY THEN Err(InvalidValue(kty[2], KeyConstants[K].KTY))
    ELSE IF alg[2] # KeyConstants[K].ALG THEN Err(InvalidValue(alg[2], KeyConstants[K].ALG))
    ELSE Ok(Unit)

\* check_key_constants::<K, E>(kty, alg, crv)
CheckKeyConstants(K, kty, alg, crv) ==
    IF kty[1] # "Some" THEN Err(MissingField("kty"))
    ELSE IF alg[1] # "Some" THEN Err(MissingField("alg"))
    ELSE IF kty[2] # KeyConstants[K].KTY THEN Err(InvalidValue(kty[2], KeyConstants[K].KTY))
    ELSE IF alg[2] # KeyConstants[K].ALG THEN Err(InvalidValue(alg[2], KeyConstants[K].ALG))
    ELSE IF KeyConstants[K].CRV # CrvNone
    THEN IF crv[1] # "Some" THEN Err(MissingField("crv"))
         ELSE IF crv[2] # KeyConstants[K].CRV
         THEN Err(InvalidValue(crv[2], KeyConstants[K].CRV))
         ELSE Ok(Unit)
    ELSE Ok(Unit)

\* impl Deserialize for P256PublicKey, EcdhEsHkdf256PublicKey and Ed25519PublicKey
KeyDeserialize(K, map) ==
    LET raw == RawDeserialize(map)
    IN  IF IsErr(raw) THEN raw
        ELSE LET checked == CheckKeyConstants(K, raw[2].kty, raw[2].alg, raw[2].crv)
             IN  IF IsErr(checked) THEN checked
                 ELSE IF raw[2].x[1] # "Some" THEN Err(MissingField("x"))
                 ELSE IF K \in Ec2KeyTypes
                 THEN IF raw[2].y[1] # "Some" THEN Err(MissingField("y"))
                      ELSE Ok(Ec2Key(K, raw[2].x[2], raw[2].y[2]))
                 ELSE Ok(OkpKey(K, raw[2].x[2]))

\* the keys of the maps that are decoded: the five labels and two unknown keys
KnownLabels == {1, 3, -1, -2, -3}
UnknownKeys == {42, 24}
\* the longest run of arbitrary entries that follows the distinct entries of a map
MaxTail == 1

\* the coordinates of the maps that are decoded
XBytes == <<120>>
YBytes == <<121, 121>>

\* the sequences without repetition over the elements of S
RECURSIVE InjectiveSeqs(_)
InjectiveSeqs(S) ==
    {<<>>} \cup UNION {{<<e>> \o rest : rest \in InjectiveSeqs(S \ {e})} : e \in S}

\* the entry of a map for a key, with the given kty, alg and crv
Entry(key, triple) ==
    IF key = LabelAsI8.Kty THEN <<key, IntValue(triple.KTY)>>
    ELSE IF key = LabelAsI8.Alg THEN <<key, IntValue(triple.ALG)>>
    ELSE IF key = LabelAsI8.Crv THEN <<key, IntValue(triple.CRV)>>
    ELSE IF key = LabelAsI8.X THEN <<key, ByteString(XBytes)>>
    ELSE IF key = LabelAsI8.Y THEN <<key, ByteString(YBytes)>>
    ELSE <<key, Text("foobar")>>

MapOf(keys, triple) == [i \in 1..Len(keys) |-> Entry(keys[i], triple)]

\* maps with the values of the target type, in every order of distinct keys,
\* followed by a run of arbitrary keys
OrderMaps(K) ==
    {MapOf(keys \o tail, KeyConstants[K]) :
        keys \in InjectiveSeqs(KnownLabels \cup {42}),
        tail \in SeqsUpTo(KnownLabels \cup UnknownKeys, MaxTail)}

\* the labels in canonical order
CanonicalLabels == <<1, 3, -1, -2, -3>>

\* the subsequence of the canonical labels that keeps the positions in P
RECURSIVE Keep(_, _)
Keep(P, i) ==
    IF i > Len(CanonicalLabels) THEN <<>>
    ELSE (IF i \in P THEN <<CanonicalLabels[i]>> ELSE <<>>) \o Keep(P, i + 1)

\* maps in canonical order with fields left out and with the constants of
\* any key type
ValueMaps ==
    {MapOf(Keep(P, 1), [KTY |-> k, ALG |-> a, CRV |-> c]) :
        P \in SUBSET (1..Len(CanonicalLabels)),
        k \in {1, 2, 4}, a \in {-7, -8, -25}, c \in {1, 6}}

\* canonical maps of the target type with one value of the wrong type or
\* outside the discriminants of its enum
MalformedMaps(K) ==
    {[MapOf(CanonicalLabels, KeyConstants[K]) EXCEPT ![i] = <<CanonicalLabels[i], bad>>] :
        i \in 1..Len(CanonicalLabels),
        bad \in {Text("foobar"), IntValue(99), ByteString([j \in 1..33 |-> 0])}}

CoseMaps(K) == OrderMaps(K) \cup ValueMaps \cup MalformedMaps(K)

\* the keys that are encoded and decoded again
Coordinates == {<<>>, <<1>>, <<2, 3>>, [i \in 1..CoordinateCapacity |-> 255]}
CoseKeys ==
    {Ec2Key(K, x, y) : K \in Ec2KeyTypes, x \in Coordinates, y \in Coordinates}
    \cup {OkpKey("Ed25519PublicKey", x) : x \in Coordinates}

\* either a map to decode as a key type, or a key to encode and decode again
CoseInit ==
    /\ coseResult = None
    /\ \/ /\ coseKey = None
          /\ coseTarget \in KeyTypes
          /\ coseMap \in CoseMaps(coseTarget)
       \/ /\ coseKey \in CoseKeys
          /\ coseTarget = coseKey[1]
          /\ coseMap = <<>>

\* cbor_serialize(&key): the key is written as a map
CoseSerialize ==
    /\ coseKey \notin {None, Idle}
    /\ coseMap = <<>>
    /\ coseResult = None
    /\ coseMap' = KeySerialize(coseKey)
    /\ UNCHANGED <<coseTarget, coseKey, coseResult, opVars, decodeVars,
                   serializeVars, callVars, authDataVars, u2fVars,
                   u2fResponseVars, webauthnVars>>

\* cbor_deserialize::<K>(&map)
CoseDeserialize ==
    /\ coseTarget \in KeyTypes
    /\ coseResult = None
    /\ coseKey = None \/ coseMap # <<>>
    /\ coseResult' = KeyDeserialize(coseTarget, coseMap)
    /\ UNCHANGED <<coseTarget, coseKey, coseMap, opVars, decodeVars,
                   serializeVars, callVars, authDataVars, u2fVars,
                   u2fResponseVars, webauthnVars>>

---------------------------------------------------------------------------
(* ctap2.rs, ctap2/make_credential.rs: authenticator data *)

\* sizes.rs
ATTESTED_CREDENTIAL_DATA_LENGTH == 612
\* an output buffer of 600 bytes, twelve short of the attested segment buffer
AUTHENTICATOR_DATA_LENGTH_600 == ATTESTED_CREDENTIAL_DATA_LENGTH - 12
AUTHENTICATOR_DATA_LENGTH == 676
COSE_KEY_LENGTH == 256
MAX_CREDENTIAL_ID_LENGTH == 255
\* the capacities of rp_id_hash and aaguid, and the size of extensions_buf
RP_ID_HASH_LENGTH == 32
AAGUID_LENGTH == 16
EXTENSIONS_BUF_LENGTH == 128

\* a call that did not return: an unwrap() on an Err
Panic == <<"Panic">>

RECURSIVE Pow(_, _)
Pow(b, e) == IF e = 0 THEN 1 ELSE b * Pow(b, e - 1)

\* little-endian bytes of an unsigned integer of the given width
ToLeBytes(n, width) == [i \in 1..width |-> (n \div Pow(256, i - 1)) % 256]

\* u32::to_be_bytes, u16::to_be_bytes
ToBeBytes(n, width) == [i \in 1..width |-> (n \div Pow(256, width - i)) % 256]

\* heapless Vec::<u8, N>::extend_from_slice(slice).unwrap() on a vector
\* that is either Ok(bytes) or lost to an earlier panic
ExtendFromSlice(vec, slice, N) ==
    IF vec[1] # "Ok" THEN vec
    ELSE IF Len(vec[2]) + Len(slice) > N THEN Panic
    ELSE Ok(vec[2] \o slice)

\* heapless Vec::<u8, N>::push(byte).unwrap()
Push(vec, byte, N) ==
    IF vec[1] # "Ok" THEN vec
    ELSE IF Len(vec[2]) + 1 > N THEN Panic
    ELSE Ok(vec[2] \o <<byte>>)

\* impl SerializeAttestedCredentialData for AttestedCredentialData
AttestedCredentialDataSerialize(self) ==
    LET N == ATTESTED_CREDENTIAL_DATA_LENGTH
        b1 == ExtendFromSlice(Ok(<<>>), self.aaguid, N)
        b2 == ExtendFromSlice(b1, ToBeBytes(Len(self.credential_id) % 65536, 2), N)
        b3 == ExtendFromSlice(b2, self.credential_id, N)
    IN  ExtendFromSlice(b3, self.credential_public_key, N)

\* AuthenticatorData::serialize
AuthenticatorDataSerialize(self) ==
    LET N == AUTHENTICATOR_DATA_LENGTH
        b1 == ExtendFromSlice(Ok(<<>>), self.rp_id_hash, N)
        b2 == Push(b1, self.flags, N)
        b3 == ExtendFromSlice(b2, ToBeBytes(self.sign_count, 4), N)
        b4 == IF self.attested_credential_data[1] = "Some"
              THEN LET attested ==
                           AttestedCredentialDataSerialize(self.attested_credential_data[2])
                   IN  IF attested[1] # "Ok" THEN Panic
                       ELSE ExtendFromSlice(b3, attested[2], N)
              ELSE b3
    IN  IF self.extensions[1] = "Some"
        THEN LET ser == CborSerialize(self.extensions[2], Zeros(EXTENSIONS_BUF_LENGTH)).result
             IN  IF IsErr(ser) THEN Panic
                 ELSE ExtendFromSlice(b4, ser[2], N)
        ELSE b4

\* n bytes that count up from start
Ramp(n, start) == [i \in 1..n |-> (start + i) % 256]

\* the fields of the authenticator data that are serialized
RpIdHashes == {<<>>, Ramp(RP_ID_HASH_LENGTH, 16)}
FlagBits == {0, 65, 197}
\* sign_count values up to 2^31 - 1, the largest integer TLC represents
SignCounts == {0, 1, 258, 16909060, 2147483647}
Aaguids == {<<>>, Ramp(AAGUID_LENGTH, 160)}
CredentialIds == {<<>>, <<7>>, Ramp(MAX_CREDENTIAL_ID_LENGTH, 0)}
CredentialPublicKeys == {<<>>, <<165, 1, 2>>, Ramp(COSE_KEY_LENGTH, 100)}
AttestedCredentialDatas ==
    [aaguid : Aaguids, credential_id : CredentialIds,
     credential_public_key : CredentialPublicKeys]
\* make_credential::Extensions: cred_protect, hmac_secret, large_blob_key
MakeCredentialExtensions ==
    [cred_protect : {None, Some(1), Some(3), Some(255)},
     hmac_secret : {None, Some(TRUE), Some(FALSE)},
     large_blob_key : {None, Some(TRUE), Some(FALSE)}]

\* the CBOR items of the extensions: a text string of up to 23 bytes, an
\* unsigned integer below 256, a boolean
CborText(t) == <<96 + Len(t)>> \o t
CborU8(n) == IF n < 24 THEN <<n>> ELSE <<24, n>>
CborBool(b) == IF b THEN <<245>> ELSE <<244>>

\* the names of the extensions: credProtect, hmac-secret, largeBlobKey
CredProtectName == <<99, 114, 101, 100, 80, 114, 111, 116, 101, 99, 116>>
HmacSecretName == <<104, 109, 97, 99, 45, 115, 101, 99, 114, 101, 116>>
LargeBlobKeyName == <<108, 97, 114, 103, 101, 66, 108, 111, 98, 75, 101, 121>>

\* #[derive(Serialize)] for make_credential::Extensions: a map of the
\* fields that are Some, under their names
ExtensionsEncode(e) ==
    LET present == {f \in {"cred_protect", "hmac_secret", "large_blob_key"} : e[f][1] = "Some"}
    IN  <<160 + Cardinality(present)>>
        \o (IF e.cred_protect[1] = "Some"
            THEN CborText(CredProtectName) \o CborU8(e.cred_protect[2]) ELSE <<>>)
        \o (IF e.hmac_secret[1] = "Some"
            THEN CborText(HmacSecretName) \o CborBool(e.hmac_secret[2]) ELSE <<>>)
        \o (IF e.large_blob_key[1] = "Some"
            THEN CborText(LargeBlobKeyName) \o CborBool(e.large_blob_key[2]) ELSE <<>>)

\* the extensions of make_credential with their encoding
TypedExtensions == {Body(ExtensionsEncode(e), FALSE) : e \in MakeCredentialExtensions}

\* extensions with the CBOR encoding the library gives them: those of
\* make_credential, and those of any other E: Serialize
ExtensionsValues ==
    TypedExtensions
    \cup {Body(enc, FALSE) : enc \in {<<161, 1>>, Ramp(110, 0), Ramp(111, 0),
                                      Ramp(EXTENSIONS_BUF_LENGTH, 0),
                                      Ramp(EXTENSIONS_BUF_LENGTH + 1, 0)}}
    \cup {Body(<<161, 1>>, TRUE)}

AuthenticatorDatas ==
    [rp_id_hash : RpIdHashes,
     flags : FlagBits,
     sign_count : SignCounts,
     attested_credential_data : {None} \cup {Some(a) : a \in AttestedCredentialDatas},
     extensions : {None} \cup {Some(e) : e \in ExtensionsValues}]

AuthDataInit ==
    /\ authData \in AuthenticatorDatas
    /\ authBytes = None

\* authenticator_data.serialize()
SerializeAuthData ==
    /\ authBytes[1] = "None"
    /\ authBytes' = AuthenticatorDataSerialize(authData)
    /\ UNCHANGED <<authData, opVars, decodeVars, serializeVars, callVars,
                   coseVars, u2fVars,
                   u2fResponseVars, webauthnVars>>

---------------------------------------------------------------------------
(* ctap1.rs: CTAP1 (U2F) requests *)

\* a control byte conversion that takes every byte
ControlByteTryFromAny(byte) ==
    IF byte = 3 THEN Ok("EnforceUserPresenceAndSign")
    ELSE IF byte = 8 THEN Ok("DontEnforceUserPresenceAndSign")
    ELSE Ok("CheckOnly")

\* impl TryFrom<u8> for ControlByte
ControlByteTryFrom(byte) ==
    IF byte = 7 THEN Ok("CheckOnly")
    ELSE IF byte = 3 THEN Ok("EnforceUserPresenceAndSign")
    ELSE IF byte = 8 THEN Ok("DontEnforceUserPresenceAndSign")
    ELSE Err("IncorrectDataParameter")

\* a decoder that accepts a Register payload of 64 bytes or more
Ctap1RequestTryFromAtLeast(apdu) ==
    IF apdu.class # 0 THEN Err("ClassNotSupported")
    ELSE LET ins == IF apdu.instruction[1] = "Unknown" THEN apdu.instruction[2] ELSE 0
             payload == apdu.data
         IN  IF ins = 3 THEN Ok(<<"Version">>)
             ELSE IF ins = 1
             THEN IF Len(payload) < 64 THEN Err("IncorrectDataParameter")
                  ELSE Ok(<<"Register",
                            [challenge |-> SubSeq(payload, 1, 32),
                             app_id |-> SubSeq(payload, 33, 64)]>>)
             ELSE IF ins = 2
             THEN LET control_byte == ControlByteTryFrom(apdu.p1)
                  IN  IF IsErr(control_byte) THEN control_byte
                      ELSE IF Len(payload) < 65 THEN Err("IncorrectDataParameter")
                      ELSE IF Len(payload) # 65 + payload[65]
                      THEN Err("IncorrectDataParameter")
                      ELSE Ok(<<"Authenticate",
                                [control_byte |-> control_byte[2],
                                 challenge |-> SubSeq(payload, 1, 32),
                                 app_id |-> SubSeq(payload, 33, 64),
                                 key_handle |-> SubSeq(payload, 66, Len(payload))]>>)
             ELSE Err("InstructionNotSupportedOrInvalid")

\* a decoder that takes instruction 0x03 as Version only without a payload
Ctap1RequestTryFromBareVersion(apdu) ==
    IF apdu.class # 0 THEN Err("ClassNotSupported")
    ELSE LET ins == IF apdu.instruction[1] = "Unknown" THEN apdu.instruction[2] ELSE 0
             payload == apdu.data
         IN  IF ins = 3 /\ Len(payload) = 0 THEN Ok(<<"Version">>)
             ELSE IF ins = 1
             THEN IF Len(payload) # 64 THEN Err("IncorrectDataParameter")
                  ELSE Ok(<<"Register",
                            [challenge |-> SubSeq(payload, 1, 32),
                             app_id |-> SubSeq(payload, 33, Len(payload))]>>)
             ELSE IF ins = 2
             THEN LET control_byte == ControlByteTryFrom(apdu.p1)
                  IN  IF IsErr(control_byte) THEN control_byte
                      ELSE IF Len(payload) < 65 THEN Err("IncorrectDataParameter")
                      ELSE IF Len(payload) # 65 + payload[65]
                      THEN Err("IncorrectDataParameter")
                      ELSE Ok(<<"Authenticate",
                                [control_byte |-> control_byte[2],
                                 challenge |-> SubSeq(payload, 1, 32),
                                 app_id |-> SubSeq(payload, 33, 64),
                                 key_handle |-> SubSeq(payload, 66, Len(payload))]>>)
             ELSE Err("InstructionNotSupportedOrInvalid")

\* a decoder that looks at instruction 0x03 before it looks at the class
Ctap1RequestTryFromVersionFirst(apdu) ==
    IF apdu.instruction[1] = "Unknown" /\ apdu.instruction[2] = 3 THEN Ok(<<"Version">>)
    ELSE
    IF apdu.class # 0 THEN Err("ClassNotSupported")
    ELSE LET ins == IF apdu.instruction[1] = "Unknown" THEN apdu.instruction[2] ELSE 0
             payload == apdu.data
         IN  IF ins = 3 THEN Ok(<<"Version">>)
             ELSE IF ins = 1
             THEN IF Len(payload) # 64 THEN Err("IncorrectDataParameter")
                  ELSE Ok(<<"Register",
                            [challenge |-> SubSeq(payload, 1, 32),
                             app_id |-> SubSeq(payload, 33, Len(payload))]>>)
             ELSE IF ins = 2
             THEN LET control_byte == ControlByteTryFrom(apdu.p1)
                  IN  IF IsErr(control_byte) THEN control_byte
                      ELSE IF Len(payload) < 65 THEN Err("IncorrectDataParameter")
                      ELSE IF Len(payload) # 65 + payload[65]
                      THEN Err("IncorrectDataParameter")
                      ELSE Ok(<<"Authenticate",
                                [control_byte |-> control_byte[2],
                                 challenge |-> SubSeq(payload, 1, 32),
                                 app_id |-> SubSeq(payload, 33, 64),
                                 key_handle |-> SubSeq(payload, 66, Len(payload))]>>)
             ELSE Err("InstructionNotSupportedOrInvalid")

\* impl TryFrom<&iso7816::Command<S>> for Request: an instruction that
\* iso7816 knows by name counts as 0; payload is apdu.data(), whose
\* byte i is payload[i + 1] here
Ctap1RequestTryFrom(apdu) ==
    IF apdu.class # 0 THEN Err("ClassNotSupported")
    ELSE LET ins == IF apdu.instruction[1] = "Unknown" THEN apdu.instruction[2] ELSE 0
             payload == apdu.data
         IN  IF ins = 3 THEN Ok(<<"Version">>)
             ELSE IF ins = 1
             THEN IF Len(payload) # 64 THEN Err("IncorrectDataParameter")
                  ELSE Ok(<<"Register",
                            [challenge |-> SubSeq(payload, 1, 32),
                             app_id |-> SubSeq(payload, 33, Len(payload))]>>)
             ELSE IF ins = 2
             THEN LET control_byte == ControlByteTryFrom(apdu.p1)
                  IN  IF IsErr(control_byte) THEN control_byte
                      ELSE IF Len(payload) < 65 THEN Err("IncorrectDataParameter")
                      ELSE IF Len(payload) # 65 + payload[65]
                      THEN Err("IncorrectDataParameter")
                      ELSE Ok(<<"Authenticate",
                                [control_byte |-> control_byte[2],
                                 challenge |-> SubSeq(payload, 1, 32),
                                 app_id |-> SubSeq(payload, 33, 64),
                                 key_handle |-> SubSeq(payload, 66, Len(payload))]>>)
             ELSE Err("InstructionNotSupportedOrInvalid")

\* the payload lengths around the boundaries of Register and Authenticate
PayloadLengths == {0, 63, 64, 65, 66, 67}
\* the bytes at request[64], the key handle length of Authenticate
KeyHandleLengths == {0, 1, 2}

\* a payload of n bytes that differ by position, with request[64] = khl
Payload(n, khl) == [i \in 1..n |-> IF i = 65 THEN khl ELSE i % 256]

\* iso7816::Instruction: named instructions and Unknown(byte)
Instructions ==
    {<<"Unknown", b>> : b \in {0, 1, 2, 3, 4}} \cup {<<"Select">>, <<"GetData">>}

\* iso7816::Command: class byte, instruction, p1, p2, data and expected length
Commands ==
    [class : {0, 128},
     instruction : Instructions,
     p1 : {0, 3, 7, 8},
     p2 : {0, 1},
     data : {Payload(n, khl) : n \in PayloadLengths, khl \in KeyHandleLengths},
     le : {0, 256}]

U2fInit ==
    /\ command \in Commands
    /\ u2fRequest = None

\* Request::try_from(&command)
TryFromCommand ==
    /\ u2fRequest[1] = "None"
    /\ u2fRequest' = Ctap1RequestTryFrom(command)
    /\ UNCHANGED <<command, opVars, decodeVars, serializeVars, callVars,
                   coseVars, authDataVars, u2fResponseVars, webauthnVars>>

---------------------------------------------------------------------------
(* ctap1.rs: CTAP1 (U2F) responses *)

\* the capacities of public_key, key_handle and signature
PUBLIC_KEY_LENGTH == 65
KEY_HANDLE_LENGTH == 255
SIGNATURE_LENGTH == 72

\* a register::Response::new that leaves out the 0x04 prefix
RegisterResponseNewNoPrefix(header_byte, public_key, key_handle, signature, attestation_certificate) ==
    LET b2 == ExtendFromSlice(Ok(<<>>), public_key.x, PUBLIC_KEY_LENGTH)
        b3 == ExtendFromSlice(b2, public_key.y, PUBLIC_KEY_LENGTH)
    IN  IF b3[1] # "Ok" THEN Panic
        ELSE Ok([header_byte |-> header_byte,
                 public_key |-> b3[2],
                 key_handle |-> key_handle,
                 attestation_certificate |-> attestation_certificate,
                 signature |-> signature])

\* register::Response::new
RegisterResponseNew(header_byte, public_key, key_handle, signature, attestation_certificate) ==
    LET b1 == Push(Ok(<<>>), 4, PUBLIC_KEY_LENGTH)
        b2 == ExtendFromSlice(b1, public_key.x, PUBLIC_KEY_LENGTH)
        b3 == ExtendFromSlice(b2, public_key.y, PUBLIC_KEY_LENGTH)
    IN  IF b3[1] # "Ok" THEN Panic
        ELSE Ok([header_byte |-> header_byte,
                 public_key |-> b3[2],
                 key_handle |-> key_handle,
                 attestation_certificate |-> attestation_certificate,
                 signature |-> signature])

\* buf.push(byte).map_err(drop)? and buf.extend_from_slice(slice)? on a
\* buffer of capacity S: after an Err nothing more is written
TryExtend(st, slice, S) ==
    IF IsErr(st.result) THEN st
    ELSE IF Len(st.buf) + Len(slice) > S THEN [st EXCEPT !.result = Err(Unit)]
    ELSE [st EXCEPT !.buf = st.buf \o slice]

\* ctap1 Response::serialize
Ctap1ResponseSerialize(self, buf, S) ==
    LET st == [result |-> Ok(Unit), buf |-> buf]
    IN  CASE self[1] = "Register" ->
               LET reg == self[2]
                   s1 == TryExtend(st, <<reg.header_byte>>, S)
                   s2 == TryExtend(s1, reg.public_key, S)
                   s3 == TryExtend(s2, <<Len(reg.key_handle) % 256>>, S)
                   s4 == TryExtend(s3, reg.key_handle, S)
                   s5 == TryExtend(s4, reg.attestation_certificate, S)
               IN  TryExtend(s5, reg.signature, S)
          [] self[1] = "Authenticate" ->
               LET s1 == TryExtend(st, <<self[2].user_presence>>, S)
                   s2 == TryExtend(s1, ToBeBytes(self[2].count, 4), S)
               IN  TryExtend(s2, self[2].signature, S)
          [] self[1] = "Version" -> TryExtend(st, self[2], S)

\* Authenticator::version(): b"U2F_V2"
U2F_V2 == <<85, 50, 70, 95, 86, 50>>

\* the arguments of register::Response::new, the authenticate responses and
\* the version response that are serialized
Signatures == {<<48>>, Ramp(SIGNATURE_LENGTH, 0)}
RegisterArguments ==
    [header_byte : {5},
     public_key : [x : {<<1>>, Ramp(32, 0)}, y : {<<2>>, Ramp(32, 32)}],
     key_handle : {<<>>, <<9, 9>>, Ramp(KEY_HANDLE_LENGTH, 0)},
     signature : Signatures,
     attestation_certificate : {<<>>, <<48, 130, 1>>, Ramp(300, 0)}]
Ctap1Responses ==
    {<<"Register", a>> : a \in RegisterArguments}
    \cup {<<"Authenticate", r>> :
             r \in [user_presence : {0, 1}, count : {0, 1, 16909060},
                    signature : Signatures]}
    \cup {<<"Version", U2F_V2>>}

\* the capacities of the buffer
U2fCapacities == {0, 1, 70, 1024}

U2fResponseInit ==
    /\ u2fResponse \in Ctap1Responses
    /\ u2fCapacity \in U2fCapacities
    /\ u2fBuffer \in {b \in {<<>>, <<238>>} : Len(b) <= u2fCapacity}
    /\ u2fResult = None

\* Response::Register(register::Response::new(..)).serialize(&mut buf), or
\* serialize on an authenticate or version response
SerializeU2fResponse ==
    /\ u2fResult[1] = "None"
    /\ u2fResponse[1] \in {"Register", "Authenticate", "Version"}
    /\ LET built == IF u2fResponse[1] = "Register"
                    THEN RegisterResponseNew(u2fResponse[2].header_byte,
                                             u2fResponse[2].public_key,
                                             u2fResponse[2].key_handle,
                                             u2fResponse[2].signature,
                                             u2fResponse[2].attestation_certificate)
                    ELSE Ok(u2fResponse[2])
       IN  u2fResult' = IF built[1] # "Ok" THEN Panic
                        ELSE <<"Returned",
                               Ctap1ResponseSerialize(<<u2fResponse[1], built[2]>>,
                                                      u2fBuffer, u2fCapacity)>>
    /\ UNCHANGED <<u2fResponse, u2fCapacity, u2fBuffer, opVars, decodeVars,
                   serializeVars, callVars, coseVars, authDataVars, u2fVars,
                   webauthnVars>>

---------------------------------------------------------------------------
(* webauthn.rs: relying party and user entities *)

\* A string is the sequence of its UTF-8 bytes.  A field of an entity is
\* what the CBOR map holds for it: <<"Absent">>, <<"Null">>, <<"Str", s>>,
\* <<"Bytes", b>> or <<"Int", n>>.
Absent == <<"Absent">>
Null == <<"Null">>
Str(x) == <<"Str", x>>

\* the capacities of name and display_name, of the icon of a user, of the
\* id of a user and of the id of a relying party
NAME_LENGTH == 64
ICON_LENGTH == 128
USER_ID_LENGTH == 64
RP_ID_LENGTH == 256

\* a boundary test that takes continuation bytes as boundaries too
IsUtf8CharBoundaryAny(b) == b < 256

\* is_utf8_char_boundary: (b as i8) >= -0x40
IsUtf8CharBoundary(b) == (IF b >= 128 THEN b - 256 ELSE b) >= -64

\* floor_char_boundary(s, index); byte i of s is s[i + 1] here.  The
\* unwrap_unchecked on a window without a boundary is undefined behaviour:
\* any index may come out of it
FloorCharBoundaries(s, index) ==
    IF index >= Len(s) THEN {Len(s)}
    ELSE LET lower_bound == IF index >= 3 THEN index - 3 ELSE 0
             found == {j \in lower_bound..index : IsUtf8CharBoundary(s[j + 1])}
         IN  IF found = {} THEN 0..Len(s)
             ELSE {CHOOSE j \in found : \A k \in found : k <= j}

\* truncate::<L>(s): push_str(&s[..split]).unwrap() on a String<L>
Truncate(s, L, split) ==
    IF split > L THEN Panic ELSE Ok(SubSeq(s, 1, split))

\* deserialize_from_str_and_truncate::<L> on a field that is present:
\* Option<&str> is read, then truncated
DeserializeFromStrAndTruncate(value, L, split) ==
    IF value[1] = "Null" THEN Ok(None)
    ELSE IF value[1] # "Str" THEN Err(Custom("invalid type"))
    ELSE LET truncated == Truncate(value[2], L, split)
         IN  IF truncated[1] # "Ok" THEN Panic ELSE Ok(Some(truncated[2]))

\* a deserialize_from_str_and_skip_if_too_long that keeps the first L bytes
DeserializeFromStrAndCut(value, L) ==
    IF value[1] # "Str" THEN Err(Custom("invalid type"))
    ELSE IF Len(value[2]) <= L THEN Ok(Some(value[2]))
    ELSE Ok(Some(SubSeq(value[2], 1, L)))

\* deserialize_from_str_and_skip_if_too_long::<L> on a field that is
\* present: a &str is read, String::try_from fails beyond L bytes
DeserializeFromStrAndSkipIfTooLong(value, L) ==
    IF value[1] # "Str" THEN Err(Custom("invalid type"))
    ELSE IF Len(value[2]) <= L THEN Ok(Some(value[2]))
    ELSE Ok(None)

\* #[serde(default, deserialize_with = ..)]: an absent field is None
WithDefault(value, decoded) == IF value[1] = "Absent" THEN Ok(None) ELSE decoded

\* impl Deserialize for Icon, behind Option: the string is read and dropped
OptionIconDeserialize(value) ==
    IF value[1] \in {"Absent", "Null"} THEN Ok(None)
    ELSE IF value[1] # "Str" THEN Err(Custom("invalid type"))
    ELSE Ok(Some("Icon"))

\* the first error among the fields, in their order, or none
FirstError(results) ==
    IF \E i \in 1..Len(results) : results[i][1] # "Ok"
    THEN results[CHOOSE i \in 1..Len(results) :
                     /\ results[i][1] # "Ok"
                     /\ \A j \in 1..(i - 1) : results[j][1] = "Ok"]
    ELSE None

\* #[derive(Deserialize)] for PublicKeyCredentialRpEntity
RpEntityDeserialize(fields, split) ==
    LET id == IF fields.id[1] = "Absent" THEN Err(MissingField("id"))
              ELSE IF fields.id[1] # "Str" \/ Len(fields.id[2]) > RP_ID_LENGTH
              THEN Err(Custom("invalid id"))
              ELSE Ok(fields.id[2])
        name == WithDefault(fields.name,
                            DeserializeFromStrAndTruncate(fields.name, NAME_LENGTH, split))
        icon == OptionIconDeserialize(fields.icon)
        error == FirstError(<<id, name, icon>>)
    IN  IF error[1] # "None" THEN error
        ELSE Ok([id |-> id[2], name |-> name[2], icon |-> icon[2]])

\* #[derive(Deserialize)] for PublicKeyCredentialUserEntity; split.name and
\* split.display_name are the boundaries floor_char_boundary found
UserEntityDeserialize(fields, split) ==
    LET id == IF fields.id[1] = "Absent" THEN Err(MissingField("id"))
              ELSE IF fields.id[1] # "Bytes" \/ Len(fields.id[2]) > USER_ID_LENGTH
              THEN Err(Custom("invalid id"))
              ELSE Ok(fields.id[2])
        icon == WithDefault(fields.icon,
                            DeserializeFromStrAndSkipIfTooLong(fields.icon, ICON_LENGTH))
        name == WithDefault(fields.name,
                            DeserializeFromStrAndTruncate(fields.name, NAME_LENGTH,
                                                          split.name))
        display_name ==
            WithDefault(fields.display_name,
                        DeserializeFromStrAndTruncate(fields.display_name, NAME_LENGTH,
                                                      split.display_name))
        error == FirstError(<<id, icon, name, display_name>>)
    IN  IF error[1] # "None" THEN error
        ELSE Ok([id |-> id[2], icon |-> icon[2], name |-> name[2],
                 display_name |-> display_name[2]])

\* the characters of the strings: a, e with acute, the euro sign and an
\* emoji, of one to four bytes
Characters == {<<97>>, <<195, 169>>, <<226, 130, 172>>, <<240, 159, 152, 128>>}
\* the number of arbitrary characters at the end of a string
MaxSuffix == 2

RECURSIVE Concat(_)
Concat(chars) == IF chars = <<>> THEN <<>> ELSE Head(chars) \o Concat(Tail(chars))

\* strings of about n bytes: ASCII up to some byte near n, then characters
StringsNear(n) ==
    {[i \in 1..k |-> 98] \o Concat(suffix) :
        k \in {0} \cup ((n - 3)..(n + 1)),
        suffix \in SeqsUpTo(Characters, MaxSuffix)}

\* what a map holds for a name or an icon: nothing, null, a string, a number
NameFields == {Absent, Null, <<"Int", 7>>} \cup {Str(x) : x \in StringsNear(NAME_LENGTH)}
IconFields == {Absent, Null, <<"Int", 7>>} \cup {Str(x) : x \in StringsNear(ICON_LENGTH)}
FewNameFields == {Absent, Str(<<97>>), Str([i \in 1..66 |-> 98])}
FewIconFields == {Absent, Str(<<97>>)}
UserIdFields == {Absent, <<"Bytes", <<1>>>>, <<"Bytes", Ramp(USER_ID_LENGTH + 1, 0)>>}
RpIdFields == {Absent, Str(<<97>>)}

\* the entities that are decoded: one field varies widely at a time
Entities ==
    {<<"Rp", f>> : f \in [id : RpIdFields, name : NameFields, icon : FewIconFields]}
    \cup {<<"User", f>> : f \in [id : UserIdFields, icon : FewIconFields,
                                 name : NameFields, display_name : FewNameFields]}
    \cup {<<"User", f>> : f \in [id : UserIdFields, icon : FewIconFields,
                                 name : FewNameFields, display_name : NameFields]}
    \cup {<<"User", f>> : f \in [id : UserIdFields, icon : IconFields,
                                 name : FewNameFields, display_name : FewNameFields]}

WebauthnInit ==
    /\ entityIn \in Entities
    /\ entityOut = None

\* the boundaries for truncating a field to L bytes; a field without a
\* string is not truncated
Splits(value, L) ==
    IF value[1] = "Str" THEN FloorCharBoundaries(value[2], L) ELSE {0}

\* cbor_deserialize::<PublicKeyCredentialRpEntity> or ::<PublicKeyCredentialUserEntity>
DeserializeEntity ==
    /\ entityOut[1] = "None"
    /\ entityIn[1] \in {"Rp", "User"}
    /\ \E a \in Splits(entityIn[2].name, NAME_LENGTH) :
          \/ /\ entityIn[1] = "Rp"
             /\ entityOut' = RpEntityDeserialize(entityIn[2], a)
          \/ /\ entityIn[1] = "User"
             /\ \E b \in Splits(entityIn[2].display_name, NAME_LENGTH) :
                   entityOut' = UserEntityDeserialize(entityIn[2],
                                                      [name |-> a, display_name |-> b])
    /\ UNCHANGED <<entityIn, opVars, decodeVars, serializeVars, callVars, coseVars,
                   authDataVars, u2fVars, u2fResponseVars>>

---------------------------------------------------------------------------
(* Specifications: one per component, the other components idle *)

OpIdle == opIn = Idle /\ opMid = Idle /\ opOut = Idle
DecodeIdle == data = <<>> /\ cbor = Idle /\ request = Idle
SerializeIdle ==
    response = Idle /\ capacity = 0 /\ stale = <<>> /\ buffer = <<>> /\ serialized = "idle"
CallIdle == callRequest = Idle /\ auth = Idle /\ calls = <<>> /\ callResult = Idle
CoseIdle == coseTarget = Idle /\ coseKey = Idle /\ coseMap = <<>> /\ coseResult = Idle
AuthDataIdle == authData = Idle /\ authBytes = Idle
U2fIdle == command = Idle /\ u2fRequest = Idle
U2fResponseIdle ==
    u2fResponse = Idle /\ u2fCapacity = 0 /\ u2fBuffer = <<>> /\ u2fResult = Idle
WebauthnIdle == entityIn = Idle /\ entityOut = Idle
OthersIdle == U2fResponseIdle /\ WebauthnIdle

\* the request decoder
Init ==
    DecodeInit /\ OpIdle /\ SerializeIdle /\ CallIdle /\ CoseIdle /\ AuthDataIdle /\ U2fIdle
    /\ OthersIdle
Next == Deserialize
Spec == Init /\ [][Next]_vars

\* the operation registry
InitOperation ==
    OpInit /\ DecodeIdle /\ SerializeIdle /\ CallIdle /\ CoseIdle /\ AuthDataIdle /\ U2fIdle
    /\ OthersIdle
NextOperation == TryFromU8 \/ IntoU8
SpecOperation == InitOperation /\ [][NextOperation]_vars

\* the response encoder
InitSerialize ==
    SerializeInit /\ OpIdle /\ DecodeIdle /\ CallIdle /\ CoseIdle /\ AuthDataIdle /\ U2fIdle
    /\ OthersIdle
NextSerialize == Serialize
SpecSerialize == InitSerialize /\ [][NextSerialize]_vars

\* the dispatch
InitCall ==
    CallInit /\ OpIdle /\ DecodeIdle /\ SerializeIdle /\ CoseIdle /\ AuthDataIdle /\ U2fIdle
    /\ OthersIdle
NextCall == Call
SpecCall == InitCall /\ [][NextCall]_vars

InitCose ==
    CoseInit /\ OpIdle /\ DecodeIdle /\ SerializeIdle /\ CallIdle /\ AuthDataIdle /\ U2fIdle
    /\ OthersIdle
NextCose == CoseSerialize \/ CoseDeserialize
SpecCose == InitCose /\ [][NextCose]_vars

InitAuthData ==
    AuthDataInit /\ OpIdle /\ DecodeIdle /\ SerializeIdle /\ CallIdle /\ CoseIdle /\ U2fIdle
    /\ OthersIdle
NextAuthData == SerializeAuthData
SpecAuthData == InitAuthData /\ [][NextAuthData]_vars

InitU2f ==
    U2fInit /\ OpIdle /\ DecodeIdle /\ SerializeIdle /\ CallIdle /\ CoseIdle /\ AuthDataIdle
    /\ OthersIdle
NextU2f == TryFromCommand
SpecU2f == InitU2f /\ [][NextU2f]_vars

InitU2fResponse ==
    U2fResponseInit /\ OpIdle /\ DecodeIdle /\ SerializeIdle /\ CallIdle /\ CoseIdle
    /\ AuthDataIdle /\ U2fIdle /\ WebauthnIdle
NextU2fResponse == SerializeU2fResponse
SpecU2fResponse == InitU2fResponse /\ [][NextU2fResponse]_vars

InitWebauthn ==
    WebauthnInit /\ OpIdle /\ DecodeIdle /\ SerializeIdle /\ CallIdle /\ CoseIdle
    /\ AuthDataIdle /\ U2fIdle /\ U2fResponseIdle
NextWebauthn == DeserializeEntity
SpecWebauthn == InitWebauthn /\ [][NextWebauthn]_vars

InitSequence ==
    SequenceInit /\ OpIdle /\ CoseIdle /\ AuthDataIdle /\ U2fIdle /\ OthersIdle
NextSequence == Deserialize \/ CallDecoded \/ SerializeReturned
SpecSequence == InitSequence /\ [][NextSequence]_vars

---------------------------------------------------------------------------
(* Properties of the request decoder, checked under Spec *)

Decoded == request[1] \in {"Ok", "Err"}
DecodedErr(e) == request[1] = "Err" /\ request[2] = e
DecodedOk(variant) == request[1] = "Ok" /\ request[2][1] = variant

\* C1: Request::deserialize of the empty byte string returns
\* Err(Error::InvalidCbor); it never returns Ok.
C1_EmptyInputIsInvalidCbor ==
    (Decoded /\ Len(data) = 0) => DecodedErr("InvalidCbor")

C1_Witness == Len(data) = 0 /\ request[1] = "Err"

\* the opcodes the registry knows
RegisteredOpcodes == {1, 2, 4, 6, 7, 8, 9, 10, 11, 12, 13} \cup (64..127)

\* C2: a non-empty message whose first byte is not a registered opcode decodes
\* to Err(Error::InvalidCommand), whatever bytes follow and whatever the CBOR
\* library would say about them.
C2_UnknownOpcodeIsInvalidCommand ==
    (Decoded /\ Len(data) > 0 /\ data[1] \notin RegisteredOpcodes)
        => DecodedErr("InvalidCommand")

C2_Witness ==
    /\ Len(data) = 1 + MaxBodyLen /\ data[1] = 128 /\ IsOk(cbor)
    /\ DecodedErr("InvalidCommand")

\* BioEnrollment, Config, PreviewBioEnrollment, LargeBlobs, Selection
UnhandledOpcodes == {9, 13, 64, 12, 11}

\* C3: a message whose opcode is a recognized but unhandled operation decodes
\* to Err(Error::InvalidCommand) for every body, never to Ok.
C3_UnhandledOperationIsInvalidCommand ==
    (Decoded /\ Len(data) > 0 /\ data[1] \in UnhandledOpcodes)
        => (DecodedErr("InvalidCommand") /\ ErrorCode(request[2]) = 1)

C3_Witness ==
    /\ Len(data) > 1 /\ data[1] = 12 /\ IsOk(cbor)
    /\ DecodedErr("InvalidCommand")

\* C4: for the opcodes GetInfo (0x04), Reset (0x07) and GetNextAssertion (0x08)
\* the decoder returns Ok of the matching body-less request for every
\* sequence of remaining bytes, malformed CBOR and the empty one included.
C4_BodilessOperationsIgnoreBody ==
    (Decoded /\ Len(data) > 0) =>
        /\ data[1] = 4 => request = Ok(<<"GetInfo">>)
        /\ data[1] = 7 => request = Ok(<<"Reset">>)
        /\ data[1] = 8 => request = Ok(<<"GetNextAssertion">>)

C4_Witness ==
    /\ Len(data) > 1 /\ data[1] = 7 /\ cbor = Err("DeserializeBadMajor")
    /\ DecodedOk("Reset")

\* MakeCredential, GetAssertion, ClientPin, CredentialManagement and its preview alias
BodyOpcodes == {1, 2, 6, 10, 65}

\* C5: a failed CBOR decode of a request body surfaces as MissingParameter
\* (0x14) when the library reports SerdeMissingField and as InvalidCbor (0x12)
\* for every other library error, never as another status.
C5_BodyDecodeFailureMapping ==
    (Decoded /\ Len(data) > 0 /\ data[1] \in BodyOpcodes /\ IsErr(cbor)) =>
        /\ request[1] = "Err"
        /\ request[2] = (IF cbor[2] = "SerdeMissingField" THEN "MissingParameter" ELSE "InvalidCbor")
        /\ ErrorCode(request[2]) = (IF cbor[2] = "SerdeMissingField" THEN 20 ELSE 18)

C5_Witness ==
    /\ Len(data) > 1 /\ data[1] = 6 /\ cbor = Err("SerdeMissingField")
    /\ DecodedErr("MissingParameter")

\* C29: a message with opcode 0x41 decodes to what the message with opcode
\* 0x0A and the same body decodes to, the same CredentialManagement request
\* or the same error, and no message with opcode 0x40 or 0x41 decodes to
\* Request::Vendor.
C29_PreviewAliasIsCredentialManagement ==
    (Decoded /\ Len(data) > 0 /\ data[1] \in {64, 65}) =>
        /\ ~DecodedOk("Vendor")
        /\ data[1] = 65 =>
              /\ request = RequestDeserialize(<<10>> \o Tail(data), cbor)
              /\ IsOk(request) => request[2][1] = "CredentialManagement"
              /\ IsOk(cbor) => IsOk(request)

\* a message with opcode 0x41 has been decoded as credential management
C29_Witness ==
    /\ Len(data) = 1 + MaxBodyLen
    /\ data[1] = 65
    /\ IsOk(cbor)
    /\ DecodedOk("CredentialManagement")


---------------------------------------------------------------------------
(* Properties of the operation registry, checked under SpecOperation *)

\* a byte was handed to Operation::try_from and the answer is in opMid
TriedByte == opIn[1] = "u8" /\ opMid[1] \in {"Ok", "Err"}
TriedIsVendor == opMid[1] = "Ok" /\ opMid[2][1] = "Vendor"

\* C6 as stated: 0x3F is rejected, 0x40 and 0x7F both decode to
\* Operation::Vendor, 0x80 is rejected.
C6_VendorBoundaryAsStated ==
    TriedByte =>
        /\ opIn[2] = 63 => IsErr(opMid)
        /\ opIn[2] \in {64, 127} => TriedIsVendor
        /\ opIn[2] = 128 => IsErr(opMid)

\* C6 amended: 0x3F is rejected, 0x40 decodes to the named operation
\* PreviewBioEnrollment (0x42 is the lowest byte that decodes to
\* Operation::Vendor), 0x7F decodes to Operation::Vendor, 0x80 is rejected.
C6_VendorBoundary ==
    TriedByte =>
        /\ opIn[2] = 63 => IsErr(opMid)
        /\ opIn[2] = 64 => (opMid[1] = "Ok" /\ opMid[2] = <<"PreviewBioEnrollment">>)
        /\ opIn[2] \in {66, 127} =>
              (TriedIsVendor /\ opMid[2] = Vendor(VendorOperation(opIn[2])))
        /\ opIn[2] = 128 => IsErr(opMid)

C6_Witness ==
    /\ opIn[1] = "u8" /\ opIn[2] = 64
    /\ opMid[1] = "Ok" /\ opMid[2][1] = "PreviewBioEnrollment"

\* C7: for every byte b that Operation::try_from accepts as op,
\* u8::from(op) = b; a byte in 0x42..=0x7F yields Vendor carrying that byte;
\* no other byte decodes to the same Operation.
C7_EncodeInvertsDecode ==
    opIn[1] = "u8" =>
        /\ (opMid[1] = "Ok" /\ opOut[1] = "u8") => opOut[2] = opIn[2]
        /\ (opMid[1] \in {"Ok", "Err"} /\ opIn[2] \in 66..127) =>
              (TriedIsVendor /\ opMid[2] = Vendor(VendorOperation(opIn[2])))
        /\ opMid[1] = "Ok" =>
              \A b \in U8 \ {opIn[2]} :
                  LET other == OperationTryFrom(b)
                  IN  IsOk(other) => other[2] # opMid[2]

C7_Witness ==
    /\ opIn[1] = "u8" /\ opIn[2] = 127
    /\ TriedIsVendor
    /\ opOut[1] = "u8" /\ opOut[2] = 127

\* C8: every constructible Operation op, Vendor(v) for every v that
\* VendorOperation::try_from returns included, satisfies
\* Operation::try_from(u8::from(op)) = Ok(op).
C8_DecodeInvertsEncode ==
    (opIn[1] = "Operation" /\ opOut[1] \in {"Ok", "Err"}) =>
        (opOut[1] = "Ok" /\ opOut[2] = opIn[2])

---------------------------------------------------------------------------
(* Properties of the response encoder, checked under SpecSerialize *)

\* the library can encode the body of the response into the N - 1 bytes
\* after the status byte
BodyEncodes ==
    /\ response[1] \in BodyVariants
    /\ ~response[2].fault
    /\ Len(response[2].enc) <= capacity - 1

\* the library fails on the body of the response
BodyFails ==
    /\ response[1] \in BodyVariants
    /\ (response[2].fault \/ Len(response[2].enc) > capacity - 1)

\* C9: on success the buffer is the status byte 0x00 followed by the CBOR
\* encoding of the body, of length 1 + body length <= N, for the variants
\* that wrap a body, and the single byte 0x00 for Reset and Vendor; nothing
\* the buffer held before remains.
C9_SuccessIsStatusThenBody ==
    serialized = "yes" =>
        /\ response[1] \in StatusOnlyVariants => buffer = <<0>>
        /\ (response[1] \in BodyVariants /\ (BodyEncodes \/ buffer[1] = 0)) =>
              /\ BodyEncodes
              /\ buffer = <<0>> \o response[2].enc
              /\ Len(buffer) = 1 + Len(response[2].enc)
              /\ Len(buffer) <= capacity
        /\ \A i \in 1..Len(buffer) : buffer[i] \notin StaleBytes

C9_Witness ==
    /\ serialized = "yes"
    /\ response[1] = "LargeBlobs"
    /\ Len(stale) = capacity /\ capacity > 1 + Len(response[2].enc)
    /\ buffer = <<0>> \o response[2].enc

\* C10: whenever CBOR serialization of the body fails, the buffer ends as
\* exactly one byte, Error::Other (0x7F): the status is not 0x00 and no
\* byte of a partly written body remains.
C10_FailureIsOtherOnly ==
    (serialized = "yes" /\ BodyFails) =>
        /\ buffer = <<ErrorCode("Other")>>
        /\ buffer = <<127>>

C10_Witness ==
    /\ serialized = "yes"
    /\ response[1] = "MakeCredential" /\ ~response[2].fault
    /\ capacity > 1 /\ Len(response[2].enc) > capacity - 1
    /\ buffer = <<127>>

\* the responses whose fields are all optional: with every field None their
\* CBOR encoding is the empty map
AllOptionalVariants == {"ClientPin", "CredentialManagement"}

\* C11: when the CBOR encoding of the body is the empty map (the single
\* byte 0xA0, a client_pin or credential_management response with every
\* field None) and it fits, the encoder omits it: the buffer ends as the
\* single status byte 0x00.
C11_EmptyMapIsOmitted ==
    (/\ serialized = "yes"
     /\ response[1] \in AllOptionalVariants
     /\ BodyEncodes
     /\ response[2].enc = <<160>>) => buffer = <<0>>

\* C27: for every response and every capacity N, N = 0 included, serialize
\* returns without a panic and leaves a buffer that is not empty and starts
\* with the status byte 0x00 or 0x7F.
C27_SerializeNeverFails ==
    serialized \in {"yes", "panic"} =>
        /\ serialized = "yes"
        /\ Len(buffer) >= 1
        /\ buffer[1] \in {0, 127}

---------------------------------------------------------------------------
(* Properties of the dispatch, checked under SpecCall *)

Called == callResult[1] \in {"Ok", "Err"}

\* the authenticator method that belongs to each request variant
MethodOf ==
    [GetInfo |-> "get_info", MakeCredential |-> "make_credential",
     GetAssertion |-> "get_assertion", GetNextAssertion |-> "get_next_assertion",
     Reset |-> "reset", ClientPin |-> "client_pin",
     CredentialManagement |-> "credential_management", LargeBlobs |-> "large_blobs",
     Vendor |-> "vendor"]

\* the invoked method returns Ok (get_info cannot fail)
MethodSucceeds == callRequest[1] = "GetInfo" \/ auth.error = "none"

\* C12: call_ctap2 invokes exactly one authenticator method, the one that
\* matches the request variant, with the payload of the request; when the
\* method succeeds the result is Ok of the Response variant of the same
\* name wrapping what the method returned (Reset and Vendor wrap nothing).
C12_OneMatchingMethod ==
    Called =>
        /\ Len(calls) = 1
        /\ calls[1][1] = MethodOf[callRequest[1]]
        /\ Len(calls[1]) = Len(callRequest)
        /\ Len(callRequest) = 2 => calls[1][2] = callRequest[2]
        /\ MethodSucceeds =>
              /\ callResult[1] = "Ok"
              /\ callResult[2][1] = callRequest[1]
              /\ IF callRequest[1] \in StatusOnlyVariants
                 THEN callResult[2] = <<callRequest[1]>>
                 ELSE callResult[2] = <<callRequest[1], auth.value>>

C12_Witness ==
    /\ callRequest[1] = "GetNextAssertion" /\ auth.error = "none"
    /\ calls = <<(<<"get_next_assertion">>)>>
    /\ callResult[1] = "Ok" /\ callResult[2][1] = "GetNextAssertion"

\* C13: when the invoked method returns Err(e), call_ctap2 returns Err(e)
\* with the same e and no Response, and no second method is invoked; a
\* GetInfo request never yields an error.
C13_ErrorPassesThrough ==
    Called =>
        /\ (callRequest[1] # "GetInfo" /\ auth.error # "none") =>
              /\ callResult[1] = "Err"
              /\ callResult[2] = auth.error
              /\ Len(calls) = 1
        /\ callRequest[1] = "GetInfo" => callResult[1] = "Ok"

C13_Witness ==
    /\ callRequest[1] = "ClientPin" /\ auth.error = "PinRequired"
    /\ Len(calls) = 1
    /\ callResult = Err("PinRequired")

---------------------------------------------------------------------------
(* Properties of the COSE keys, checked under SpecCose *)

\* a map was given and has been decoded
MapDecoded == coseKey = None /\ coseResult # None

SameEntry(a, b) == a[1] = b[1] /\ a[2][1] = b[2][1] /\ a[2][2] = b[2][2]
SameMap(m, c) == Len(m) = Len(c) /\ \A i \in 1..Len(c) : SameEntry(m[i], c[i])
IsPermutationOf(m, c) ==
    Len(m) = Len(c) /\ \A i \in 1..Len(c) : \E j \in 1..Len(m) : SameEntry(m[j], c[i])

\* the key of type K with the coordinates of the maps, and its canonical entries
CanonicalKey(K) ==
    IF K \in Ec2KeyTypes THEN Ec2Key(K, XBytes, YBytes) ELSE OkpKey(K, XBytes)
CanonicalMap(K) == KeySerialize(CanonicalKey(K))

\* C14: a map that holds the canonical entries of a key in permuted order
\* decodes to that key when the order is the canonical one, and fails to
\* decode in every other order.
C14_OnlyCanonicalOrderDecodes ==
    (MapDecoded /\ IsPermutationOf(coseMap, CanonicalMap(coseTarget))) =>
        IF SameMap(coseMap, CanonicalMap(coseTarget))
        THEN coseResult = Ok(CanonicalKey(coseTarget))
        ELSE IsErr(coseResult)

\* a permutation other than the identity has been rejected
C14_Witness ==
    /\ MapDecoded
    /\ coseTarget = "Ed25519PublicKey"
    /\ IsPermutationOf(coseMap, CanonicalMap(coseTarget))
    /\ ~SameMap(coseMap, CanonicalMap(coseTarget))
    /\ IsErr(coseResult)

\* the map starts with the canonical entries of the key of type K and holds
\* at least one more entry
ExtendsCanonical(m, K) ==
    /\ Len(m) > Len(CanonicalMap(K))
    /\ SameMap(SubSeq(m, 1, Len(CanonicalMap(K))), CanonicalMap(K))

\* the keys of the entries after the canonical ones
TailKeys(m, K) == {m[i][1] : i \in (Len(CanonicalMap(K)) + 1)..Len(m)}

KnownAfterUnknown(m) ==
    \E i \in 1..Len(m) : \E j \in (i + 1)..Len(m) :
        m[i][1] \notin KnownLabels /\ m[j][1] \in KnownLabels

\* C16: a map in which a known label appears anywhere after an unknown key
\* fails to decode.
C16_KnownAfterUnknownFails ==
    (MapDecoded /\ KnownAfterUnknown(coseMap)) => IsErr(coseResult)

\* the keys of a map, and the name of the field a known label stands for
KeysOf(m) == {m[i][1] : i \in 1..Len(m)}
FieldName(label) == FieldOf[LabelTryFrom(label)[2]]

\* the fields the decoder of K requires, and the constant it expects for a label
RequiredLabels(K) == IF K \in Ec2KeyTypes THEN {1, 3, -1, -2, -3} ELSE {1, 3, -1, -2}
ExpectedConstant(K, label) ==
    IF label = 1 THEN KeyConstants[K].KTY
    ELSE IF label = 3 THEN KeyConstants[K].ALG
    ELSE KeyConstants[K].CRV

\* the required fields that the map does not hold
AbsentFields(m, K) == {FieldName(label) : label \in RequiredLabels(K) \ KeysOf(m)}

\* the entries for kty, alg or crv whose value is not the constant of K
DifferingEntries(m, K) ==
    {i \in 1..Len(m) : /\ m[i][1] \in {1, 3, -1}
                       /\ m[i][2][1] = "int"
                       /\ m[i][2][2] # ExpectedConstant(K, m[i][1])}

\* the position of a known label in the canonical order
Rank(label) == CHOOSE r \in 1..Len(CanonicalLabels) : CanonicalLabels[r] = label

\* known labels only, in canonical order, each with a value of its type
WellFormedCanonical(m) ==
    /\ \A i \in 1..Len(m) :
          /\ m[i][1] \in KnownLabels
          /\ IsOk(NextValue(LabelTryFrom(m[i][1])[2], m[i][2]))
    /\ \A i \in 1..Len(m) : \A j \in (i + 1)..Len(m) : Rank(m[i][1]) < Rank(m[j][1])

\* C17: decoding as a key type fails whenever kty, alg or crv is absent or
\* differs from the constant of the type, or a required coordinate is
\* absent; on a map in canonical order the error is a missing-field error
\* that names an absent field or an invalid-value error for a field that
\* differs from its constant.
C17_ConstantsAndCoordinatesEnforced ==
    (/\ MapDecoded
     /\ AbsentFields(coseMap, coseTarget) # {} \/ DifferingEntries(coseMap, coseTarget) # {}) =>
        /\ IsErr(coseResult)
        /\ WellFormedCanonical(coseMap) =>
              /\ coseResult[2][1] \in {"missing_field", "invalid_value"}
              /\ coseResult[2][1] = "missing_field" =>
                    coseResult[2][2] \in AbsentFields(coseMap, coseTarget)
              /\ coseResult[2][1] = "invalid_value" =>
                    \E i \in DifferingEntries(coseMap, coseTarget) :
                        coseResult[2] = InvalidValue(coseMap[i][2][2],
                                                     ExpectedConstant(coseTarget, coseMap[i][1]))
              /\ DifferingEntries(coseMap, coseTarget) = {} =>
                    coseResult[2][1] = "missing_field"
              /\ AbsentFields(coseMap, coseTarget) = {} =>
                    coseResult[2][1] = "invalid_value"

\* a P-256 key on the curve of Ed25519 has been rejected as an invalid value
C17_Witness ==
    /\ MapDecoded
    /\ coseTarget = "P256PublicKey"
    /\ WellFormedCanonical(coseMap)
    /\ AbsentFields(coseMap, coseTarget) = {}
    /\ \E i \in DifferingEntries(coseMap, coseTarget) : coseMap[i][1] = -1
    /\ coseResult = Err(InvalidValue(6, 1))

\* a key was given, encoded, and the encoding has been decoded
KeyDecodedAgain == coseKey[1] \in KeyTypes /\ coseResult # None

\* C18: decoding the encoding of a key returns a value equal to the key.
C18_RoundTrip == KeyDecodedAgain => coseResult = Ok(coseKey)

\* a P-256 key with coordinates of different lengths has made the round trip
C18_Witness ==
    /\ KeyDecodedAgain
    /\ coseKey[1] = "P256PublicKey"
    /\ Len(coseKey[2]) = CoordinateCapacity
    /\ Len(coseKey[3]) = 1
    /\ Len(coseMap) = 5
    /\ coseResult = Ok(coseKey)

---------------------------------------------------------------------------
(* Properties of the authenticator data, checked under SpecAuthData *)

\* serialize() has returned
AuthDataSerialized == authBytes[1] = "Ok"

\* the segment of the attested credential data, empty when there is none
AttestedSegment(a) ==
    IF a[1] = "Some"
    THEN a[2].aaguid
         \o <<Len(a[2].credential_id) \div 256, Len(a[2].credential_id) % 256>>
         \o a[2].credential_id
         \o a[2].credential_public_key
    ELSE <<>>

\* the segment of the extensions, empty when there are none
ExtensionsSegment(e) == IF e[1] = "Some" THEN e[2].enc ELSE <<>>

\* C19: the serialized authenticator data is rp_id_hash, the flags byte, the
\* sign_count as four big-endian bytes, the attested credential data segment
\* aaguid || be16(length of credential_id) || credential_id || credential_public_key
\* when present, and the CBOR encoding of the extensions when present, and
\* nothing else.
C19_AuthenticatorDataLayout ==
    AuthDataSerialized =>
        authBytes[2] =
            authData.rp_id_hash
            \o <<authData.flags>>
            \o <<(authData.sign_count \div 16777216) % 256,
                 (authData.sign_count \div 65536) % 256,
                 (authData.sign_count \div 256) % 256,
                 authData.sign_count % 256>>
            \o AttestedSegment(authData.attested_credential_data)
            \o ExtensionsSegment(authData.extensions)

\* authenticator data with every part present has been serialized
C19_Witness ==
    /\ AuthDataSerialized
    /\ authData.sign_count = 16909060
    /\ authData.attested_credential_data[1] = "Some"
    /\ Len(authData.attested_credential_data[2].credential_id) = MAX_CREDENTIAL_ID_LENGTH
    /\ Len(authData.attested_credential_data[2].credential_public_key) = 3
    /\ authData.extensions[1] = "Some"
    /\ Len(authBytes[2]) = 32 + 1 + 4 + 16 + 2 + 255 + 3 + 2

\* serialize() has returned or panicked on authenticator data of
\* make_credential: the extensions, if any, are a make_credential::Extensions
MakeCredentialDataDone ==
    /\ authBytes[1] \in {"Ok", "Panic"}
    /\ authData.extensions[1] = "Some" => authData.extensions[2] \in TypedExtensions

\* C28: for authenticator data of make_credential with fields within their
\* type bounds, the attested segment has at most 612 bytes, the encoded
\* extensions at most 128 bytes and the output at most 676 bytes, and
\* serialize does not fail.
C28_CapacitiesSuffice ==
    MakeCredentialDataDone =>
        /\ authBytes[1] = "Ok"
        /\ Len(AttestedSegment(authData.attested_credential_data)) <= 612
        /\ Len(ExtensionsSegment(authData.extensions)) <= 128
        /\ Len(authBytes[2]) <= 676

\* the longest authenticator data of make_credential has been serialized
C28_Witness ==
    /\ MakeCredentialDataDone
    /\ authBytes[1] = "Ok"
    /\ Len(AttestedSegment(authData.attested_credential_data)) = 16 + 2 + 255 + 256
    /\ Len(ExtensionsSegment(authData.extensions)) = 42
    /\ Len(authBytes[2]) = 32 + 1 + 4 + 529 + 42

---------------------------------------------------------------------------
(* Properties of the CTAP1 requests, checked under SpecU2f *)

\* the command has been decoded
U2fDecoded == u2fRequest[1] \in {"Ok", "Err"}

\* the command is a Register APDU: class 0, instruction 0x01
IsRegisterApdu == command.class = 0 /\ command.instruction = <<"Unknown", 1>>

\* C20: a command with class 0 and instruction 0x01 decodes successfully
\* exactly when its payload has 64 bytes, then to a Register request whose
\* challenge is payload[0..32] and whose app_id is payload[32..64], whatever
\* p1 and p2 are; any other payload length gives IncorrectDataParameter.
C20_RegisterFraming ==
    (U2fDecoded /\ IsRegisterApdu) =>
        IF Len(command.data) = 64
        THEN u2fRequest = Ok(<<"Register",
                               [challenge |-> SubSeq(command.data, 1, 32),
                                app_id |-> SubSeq(command.data, 33, 64)]>>)
        ELSE u2fRequest = Err("IncorrectDataParameter")

\* a Register payload of 65 bytes has been rejected with p1 and p2 set
C20_Witness ==
    /\ U2fDecoded
    /\ IsRegisterApdu
    /\ command.p1 = 3
    /\ command.p2 = 1
    /\ Len(command.data) = 65
    /\ u2fRequest = Err("IncorrectDataParameter")

\* the command is an Authenticate APDU: class 0, instruction 0x02
IsAuthenticateApdu == command.class = 0 /\ command.instruction = <<"Unknown", 2>>

\* the control bytes of Authenticate and their variants
ControlByteVariant(p1) ==
    CASE p1 = 7 -> "CheckOnly"
      [] p1 = 3 -> "EnforceUserPresenceAndSign"
      [] p1 = 8 -> "DontEnforceUserPresenceAndSign"

\* C21: a command with class 0 and instruction 0x02 decodes successfully
\* exactly when p1 is 0x07, 0x03 or 0x08, the payload has at least 65 bytes
\* and its length is 65 plus payload byte 64; then control_byte is the
\* variant of p1, challenge is payload[0..32], app_id is payload[32..64] and
\* key_handle is payload[65..], as long as payload byte 64 says; every other
\* case gives IncorrectDataParameter.
C21_AuthenticateFraming ==
    (U2fDecoded /\ IsAuthenticateApdu) =>
        IF /\ command.p1 \in {7, 3, 8}
           /\ Len(command.data) >= 65
           /\ Len(command.data) = 65 + command.data[65]
        THEN /\ u2fRequest =
                    Ok(<<"Authenticate",
                         [control_byte |-> ControlByteVariant(command.p1),
                          challenge |-> SubSeq(command.data, 1, 32),
                          app_id |-> SubSeq(command.data, 33, 64),
                          key_handle |-> SubSeq(command.data, 66, Len(command.data))]>>)
             /\ Len(u2fRequest[2][2].key_handle) = command.data[65]
        ELSE u2fRequest = Err("IncorrectDataParameter")

\* an Authenticate command with a key handle of two bytes has been decoded
C21_Witness ==
    /\ U2fDecoded
    /\ IsAuthenticateApdu
    /\ command.p1 = 8
    /\ IsOk(u2fRequest)
    /\ u2fRequest[2][2].control_byte = "DontEnforceUserPresenceAndSign"
    /\ Len(u2fRequest[2][2].key_handle) = 2

\* C22 as stated: a command with instruction 0x03 decodes to Request::Version
\* whatever its class byte, p1, p2, payload and expected length are.
C22_VersionAlwaysAccepted ==
    (U2fDecoded /\ command.instruction = <<"Unknown", 3>>) =>
        u2fRequest = Ok(<<"Version">>)

\* C22: a command with class 0 and instruction 0x03 decodes to
\* Request::Version whatever its p1, p2, payload and expected length are.
C22_VersionAcceptedInClassZero ==
    (U2fDecoded /\ command.class = 0 /\ command.instruction = <<"Unknown", 3>>) =>
        u2fRequest = Ok(<<"Version">>)

\* a Version command with parameters and a payload has been accepted
C22_Witness ==
    /\ U2fDecoded
    /\ command.class = 0
    /\ command.instruction = <<"Unknown", 3>>
    /\ command.p1 = 7
    /\ command.p2 = 1
    /\ Len(command.data) = 67
    /\ command.le = 256
    /\ u2fRequest = Ok(<<"Version">>)

\* the statuses of iso7816::Status that the decoder returns
DecodeStatuses ==
    {"ClassNotSupported", "InstructionNotSupportedOrInvalid", "IncorrectDataParameter"}

\* C23: a command whose class byte is not 0 is rejected with
\* ClassNotSupported; a command with class 0 whose instruction is none of
\* 0x01, 0x02, 0x03 is rejected with InstructionNotSupportedOrInvalid;
\* every error of the decoder is an ISO 7816 status.
C23_ErrorClassification ==
    U2fDecoded =>
        /\ command.class # 0 => u2fRequest = Err("ClassNotSupported")
        /\ (/\ command.class = 0
            /\ \A b \in {1, 2, 3} : command.instruction # <<"Unknown", b>>) =>
                u2fRequest = Err("InstructionNotSupportedOrInvalid")
        /\ IsErr(u2fRequest) => u2fRequest[2] \in DecodeStatuses

\* a Version command in another class has been rejected
C23_Witness ==
    /\ U2fDecoded
    /\ command.class = 128
    /\ command.instruction = <<"Unknown", 3>>
    /\ u2fRequest = Err("ClassNotSupported")

---------------------------------------------------------------------------
(* Properties of the CTAP1 responses, checked under SpecU2fResponse *)

\* serialize has returned Ok(()) for a Register response
RegisterSerialized ==
    /\ u2fResult[1] = "Returned"
    /\ u2fResponse[1] = "Register"
    /\ IsOk(u2fResult[2].result)

\* C24: serialize appends to the buffer, for a Register response built by
\* register::Response::new, exactly header_byte, 0x04, x, y, one byte with the
\* length of the key handle, the key handle, the attestation certificate and
\* the signature; the public key has 65 bytes when x and y have 32.
C24_RegisterResponseLayout ==
    RegisterSerialized =>
        LET reg == u2fResponse[2]
        IN  /\ u2fResult[2].buf =
                   u2fBuffer
                   \o <<reg.header_byte>>
                   \o <<4>> \o reg.public_key.x \o reg.public_key.y
                   \o <<Len(reg.key_handle)>>
                   \o reg.key_handle
                   \o reg.attestation_certificate
                   \o reg.signature
            /\ (Len(reg.public_key.x) = 32 /\ Len(reg.public_key.y) = 32) =>
                   Len(u2fResult[2].buf) =
                       Len(u2fBuffer) + 1 + 65 + 1 + Len(reg.key_handle)
                       + Len(reg.attestation_certificate) + Len(reg.signature)

\* a Register response with the longest key handle has been appended to a
\* buffer that was not empty
C24_Witness ==
    /\ RegisterSerialized
    /\ Len(u2fBuffer) = 1
    /\ Len(u2fResponse[2].key_handle) = KEY_HANDLE_LENGTH
    /\ Len(u2fResponse[2].public_key.x) = 32
    /\ Len(u2fResponse[2].public_key.y) = 32
    /\ Len(u2fResponse[2].attestation_certificate) = 300
    /\ u2fResult[2].buf[Len(u2fBuffer) + 67] = 255

---------------------------------------------------------------------------
(* Properties of the WebAuthn entities, checked under SpecWebauthn *)

\* the entity has been decoded
EntityDecoded == entityOut[1] # "None"

\* the fields that are truncated, per entity
TruncatedFields == IF entityIn[1] = "Rp" THEN {"name"} ELSE {"name", "display_name"}

\* the id is well-formed and the icon, if any, is a string
IdAndIconValid ==
    /\ IF entityIn[1] = "Rp"
       THEN entityIn[2].id[1] = "Str" /\ Len(entityIn[2].id[2]) <= 256
       ELSE entityIn[2].id[1] = "Bytes" /\ Len(entityIn[2].id[2]) <= 64
    /\ entityIn[2].icon[1] \in {"Absent", "Str"}

\* k is 0, the length of s, or the index of a byte that starts a character
OnCharBoundary(s, k) == k = 0 \/ k = Len(s) \/ s[k + 1] \notin 128..191

\* the longest prefix of s of at most 64 bytes that ends between characters
LongestPrefix(s) ==
    LET fits == {k \in 0..Len(s) : k <= 64 /\ OnCharBoundary(s, k)}
    IN  SubSeq(s, 1, CHOOSE k \in fits : \A j \in fits : j <= k)

\* C25: an entity whose names are strings of any length decodes
\* successfully; each name is stored as its longest prefix of at most 64
\* bytes that ends on a character boundary, and unchanged when it has at
\* most 64 bytes.
C25_NamesAreTruncated ==
    (/\ EntityDecoded
     /\ IdAndIconValid
     /\ \A f \in TruncatedFields : entityIn[2][f][1] \in {"Absent", "Str"}) =>
        /\ IsOk(entityOut)
        /\ \A f \in TruncatedFields :
              entityIn[2][f][1] = "Str" =>
                 /\ entityOut[2][f] = Some(LongestPrefix(entityIn[2][f][2]))
                 /\ Len(entityIn[2][f][2]) <= 64 => entityOut[2][f] = Some(entityIn[2][f][2])

\* a display name has been cut in front of a character that crosses byte 64
C25_Witness ==
    /\ EntityDecoded
    /\ entityIn[1] = "User"
    /\ IsOk(entityOut)
    /\ entityIn[2].display_name[1] = "Str"
    /\ Len(entityIn[2].display_name[2]) = 67
    /\ entityOut[2].display_name[1] = "Some"
    /\ Len(entityOut[2].display_name[2]) = 62

\* the entity with its icon replaced by a short one
WithShortIcon == [entityIn[2] EXCEPT !.icon = Str(<<97>>)]

\* C26: a user entity with an icon of more than 128 bytes decodes
\* successfully with icon = None, one with an icon of at most 128 bytes
\* keeps it unchanged, and the other fields decode as they do with a
\* short icon.
C26_LongIconIsDropped ==
    (/\ EntityDecoded
     /\ entityIn[1] = "User"
     /\ entityIn[2].icon[1] = "Str"
     /\ IsOk(UserEntityDeserialize(WithShortIcon, [name |-> 0, display_name |-> 0]))) =>
        /\ IsOk(entityOut)
        /\ entityOut[2].icon = IF Len(entityIn[2].icon[2]) > 128 THEN None
                               ELSE Some(entityIn[2].icon[2])
        /\ \E a \in Splits(entityIn[2].name, NAME_LENGTH) :
           \E b \in Splits(entityIn[2].display_name, NAME_LENGTH) :
              LET short == UserEntityDeserialize(WithShortIcon,
                                                 [name |-> a, display_name |-> b])
              IN  /\ entityOut[2].id = short[2].id
                  /\ entityOut[2].name = short[2].name
                  /\ entityOut[2].display_name = short[2].display_name

\* an icon of 129 bytes has been dropped
C26_Witness ==
    /\ EntityDecoded
    /\ entityIn[1] = "User"
    /\ entityIn[2].icon[1] = "Str"
    /\ Len(entityIn[2].icon[2]) = 129
    /\ entityIn[2].name[1] = "Str"
    /\ IsOk(entityOut)
    /\ entityOut[2].icon = None
    /\ entityOut[2].name[1] = "Some"

---------------------------------------------------------------------------
(* Properties of the decode, call_ctap2, serialize sequence, checked under
   SpecSequence *)

\* the large_blobs method of the authenticator has been invoked
LargeBlobsInvoked == \E i \in 1..Len(calls) : calls[i][1] = "large_blobs"

\* C30: Request::deserialize never returns Request::LargeBlobs for any byte
\* string, so in a decode -> call_ctap2 -> serialize sequence the request
\* handed to call_ctap2 is never LargeBlobs, the large_blobs method is never
\* invoked, and Response::LargeBlobs is neither returned nor serialized.
C30_LargeBlobsUnreachable ==
    /\ ~DecodedOk("LargeBlobs")
    /\ callRequest[1] # "LargeBlobs"
    /\ ~LargeBlobsInvoked
    /\ callResult[1] = "Ok" => callResult[2][1] # "LargeBlobs"
    /\ response[1] # "LargeBlobs"

\* a largeBlobs message with a well-formed body was decoded and refused
\* before any method was invoked
C30_Witness ==
    /\ Len(data) = 1 + MaxBodyLen /\ data[1] = 12 /\ IsOk(cbor)
    /\ DecodedErr("InvalidCommand")
    /\ calls = <<>>

\* a message went all the way through the sequence
C30_SequenceCompleted ==
    /\ DecodedOk("CredentialManagement")
    /\ callResult[1] = "Ok"
    /\ serialized = "yes"

====
